---- MODULE Spec2Model ----
(***************************************************************************)
(* Headless-agent wrappers of knearme-platform (docs/claude-headless and   *)
(* docs/codex-headless): the retry/queue driver AgentService, the session  *)
(* identifier clients and the streaming runs, as state machines.           *)
(*                                                                         *)
(*   Spec        AgentService: run_task, process_queue, shutdown signal    *)
(*   SpecClient  conversation-identifier resolution, run and reset of the  *)
(*               five clients that persist an identifier in a file         *)
(*   SpecStream  the streaming run() of ClaudeAgent and CodexAgent applied *)
(*               to bounded sequences of output lines                      *)
(***************************************************************************)
EXTENDS Integers, Sequences, FiniteSets, TLC

VARIABLES
    \* ---- AgentService (production/agent-service.py)
    svcPc,        \* position of the service's main thread
    mode,         \* "none" | "direct" (run_task from main) | "interactive"
                  \* (run_interactive) | "queue" (process_queue)
    calls,        \* top-level calls made so far
    maxRetries,   \* Config.max_retries
    budgetUsd,    \* Config.budget_usd: <<>> (None) or <<ceiling>>
    queueFile,    \* the queue path: whether a file is there, and its lines
    opened,       \* whether the current process_queue call opened the file
    openLines,    \* the lines of the file object opened by process_queue
    pos,          \* number of lines the for-loop has read
    taskNum,      \* process_queue's local task_num
    results,      \* process_queue's local results list
    shutdown,     \* AgentService._shutdown_requested
    stats,        \* AgentService.stats
    task,         \* the running (or last) run_task call: its locals and history
    lastResult,   \* the TaskResult returned by the last run_task call
    started,      \* history: run_task calls started by process_queue so far
    flagAt,       \* history: where the main thread was when the signal arrived
    \* ---- the persisted conversation identifier (all clients)
    client,       \* which client class owns the session file
    sessionFile,  \* content of the session file, or Absent
    cachedId,     \* the client's _session_id / _thread_id, or None
    launches,     \* history: the subprocesses launched, oldest first
    exits,        \* history: the exit codes of those subprocesses
    minted,       \* number of identifiers the external CLI has created
    oldIds,       \* history: identifiers discarded by a reset
    lastCall,     \* history: outcome of the client's last operation
    \* ---- streaming run() on a sequence of output lines
    sInput,       \* the subprocess behaviour handed to run(): lines and exit code
    sDone,        \* the run() applied: "none" | "claude" | "codex" | "codex-batch",
                  \* or "claude-reading" | "codex-reading" while its loop waits for a line
    sPos,         \* number of lines the loop of the streaming run has read
    sOut,         \* what that run() did: raised or returned, and the AgentResult
    parser,       \* a StreamParser: its stats, and history of what parse_stream did
    \* ---- StatefulAgent (multi-turn/stateful-agent.py)
    store,        \* the storage directory: session name -> file content, or NoDoc
    heap,         \* the Session objects created so far in this process
    current,      \* StatefulAgent._current_session: an index into heap, or 0
    snap,         \* history: heap, store and current session before the last operation
    procs         \* two processes running StatefulAgent.run on one session name

svcVars    == <<svcPc, mode, calls, maxRetries, budgetUsd, queueFile, opened, openLines, pos,
                taskNum, results, shutdown, stats, task, lastResult, started, flagAt>>
clientVars == <<client, sessionFile, cachedId, launches, exits, minted, oldIds, lastCall>>
streamVars == <<sInput, sDone, sPos, sOut, parser>>
sessVars   == <<store, heap, current, snap, procs>>
vars       == <<svcVars, clientVars, streamVars, sessVars>>

---------------------------------------------------------------------------
\* Bounds of the exploration.

\* Largest Config.max_retries explored (the environment variable MAX_RETRIES).
MaxRetriesCfg == 3
\* Top-level calls (run_task from main, process_queue) made on one service.
MaxCalls == 2
\* Depth at which the interpreter raises RecursionError.
RecursionLimit == 3
\* Operations made on one session client.
MaxOps == 3
\* Conversation identifiers the external CLI creates.
MaxMint == 2

\* Python's None and a path with no file.
None   == "<None>"
Absent == "<absent>"

\* A dict field that may be missing: <<>> (missing) or <<v>> (present).
Get(field, default) == IF field = <<>> THEN default ELSE field[1]

\* bool(x) of an Optional[str].
Truthy(s) == s # None /\ s # ""

---------------------------------------------------------------------------
\* Text helpers.

\* The characters str.strip() removes: those for which str.isspace() is true.
\* A character that has no escape in a TLA+ string is written as its code point.
WhiteSpace ==
    {" ", "\t", "\n", "\r", "\f", "U+000B", "U+001C", "U+001D", "U+001E", "U+001F",
     "U+0085", "U+00A0", "U+1680", "U+2000", "U+2001", "U+2002", "U+2003", "U+2004",
     "U+2005", "U+2006", "U+2007", "U+2008", "U+2009", "U+200A", "U+2028", "U+2029",
     "U+202F", "U+205F", "U+3000"}

RECURSIVE LStrip(_)
LStrip(s) == IF s # <<>> /\ Head(s) \in WhiteSpace THEN LStrip(Tail(s)) ELSE s

RECURSIVE RStrip(_)
RStrip(s) ==
    IF s # <<>> /\ s[Len(s)] \in WhiteSpace THEN RStrip(SubSeq(s, 1, Len(s) - 1)) ELSE s

\* str.strip() of a line given as a sequence of characters.
Strip(s) == RStrip(LStrip(s))

\* Whether the sequence q starts with the sequence p.
IsPrefix(p, q) == Len(p) <= Len(q) /\ SubSeq(q, 1, Len(p)) = p

\* str.strip() of the session file's content, on the contents explored.
StripText(s) ==
    CASE s = "s0\n" -> "s0"
      [] s = "\n"   -> ""
      [] OTHER      -> s

---------------------------------------------------------------------------
\* Output lines of the external CLI.  A line is a record: t is the JSON
\* object's "type" ("blank": an empty line, "bad": not JSON, "nondict": JSON
\* that is not an object); every payload field is <<>> when the key is missing.

Line(t) == [t |-> t, blocks |-> <<>>, item |-> <<>>, is_error |-> <<>>, cost |-> <<>>,
            dur |-> <<>>, msg |-> <<>>, sid |-> <<>>, error |-> <<>>, usage |-> <<>>,
            message |-> <<>>]

TextBlock(s) == [bt |-> "text", text |-> <<s>>]
ToolBlock    == [bt |-> "tool_use", text |-> <<>>]

\* {"type":"assistant","message":{"content":[...]}}
Assistant(blocks) == [Line("assistant") EXCEPT !.blocks = <<blocks>>]
\* {"type":"result","is_error":e,"total_cost_usd":c,"duration_ms":d,"result":m}
ResultLine(e, c, d, m) ==
    [Line("result") EXCEPT !.is_error = <<e>>, !.cost = <<c>>, !.dur = <<d>>, !.msg = <<m>>]

---------------------------------------------------------------------------
\* Identifier resolution of the clients whose command builder always adds the
\* resume flag (ClaudeAgent, AgentService): session_id -> _run_once /
\* _run_claude -> _build_command -> session_id.

Resolved(id, file, ls) ==
    [raised |-> FALSE, error |-> "", id |-> id, cached |-> id, file |-> file, launches |-> ls]
ResolveRaised(err, cached, file, ls) ==
    [raised |-> TRUE, error |-> err, id |-> "", cached |-> cached, file |-> file, launches |-> ls]

\* A subprocess launch: kind "init" (the one-time initialization call) or "run";
\* resume <<>> (no resume flag) or <<id>>; file: the session file at that time.
Launch(kind, resume, file) == [kind |-> kind, resume |-> resume, file |-> file]

\* The exit codes of the launches ls, all made with a CLI that exits with rc.
ExitsOf(ls, rc) == [i \in 1..Len(ls) |-> rc]

RECURSIVE ResolveAlways(_, _, _, _)
ResolveAlways(cached, file, out, depth) ==
    IF Truthy(cached) THEN Resolved(cached, file, <<>>)
    ELSE IF file # Absent THEN Resolved(StripText(file), file, <<>>)
    ELSE IF depth >= RecursionLimit
         THEN ResolveRaised("RecursionError", cached, file, <<>>)
    ELSE \* _build_command of the initialization call reads self.session_id again
         LET inner == ResolveAlways(cached, file, out, depth + 1) IN
         IF inner.raised THEN inner
         ELSE LET ls == Append(inner.launches, Launch("init", <<inner.id>>, inner.file)) IN
              IF out.rc # 0 \/ ~out.json
              THEN ResolveRaised("Claude failed", inner.cached, inner.file, ls)
              ELSE Resolved(Get(out.sid, ""), Get(out.sid, ""), ls)

---------------------------------------------------------------------------
\* AgentService.run_task: one attempt.

\* Behaviours of the subprocess of one attempt.  launch = FALSE: Popen itself
\* raises exc.  class is the label of the case, used to state the claims:
\* "fail" (exception or non-zero exit), "good" (exit 0, result without error),
\* "semerr" (exit 0, result with is_error), "noresult" (exit 0, no result line).
Behaviour(class, launch, exc, lines, rc, stderr) ==
    [class |-> class, launch |-> launch, exc |-> exc, lines |-> lines, rc |-> rc,
     stderr |-> stderr]

BGood       == Behaviour("good", TRUE, "", <<Assistant(<<TextBlock("Hi")>>), Line("blank"),
                         Line("bad"), ResultLine(FALSE, 2, 2, "Hi")>>, 0, "")
BNonZero    == Behaviour("fail", TRUE, "", <<Assistant(<<TextBlock("par")>>),
                         ResultLine(FALSE, 1, 2, "par")>>, 1, "E1")
BLaunchFail == Behaviour("fail", FALSE, "No such file: claude", <<>>, 0, "")
BNonDict    == Behaviour("fail", TRUE, "", <<Line("nondict"), ResultLine(FALSE, 1, 2, "x")>>,
                         0, "")
BSemErr     == Behaviour("semerr", TRUE, "", <<Assistant(<<ToolBlock, TextBlock("no")>>),
                         ResultLine(TRUE, 1, 2, "boom")>>, 0, "")
BNoResult   == Behaviour("noresult", TRUE, "", <<Assistant(<<TextBlock("Hi")>>)>>, 0, "")

SvcBehaviours == {BGood, BNonZero, BLaunchFail, BNonDict, BSemErr, BNoResult}

\* "".join of the text of the text blocks of one assistant line
RECURSIVE BlockTexts(_)
BlockTexts(blocks) ==
    IF blocks = <<>> THEN ""
    ELSE (IF Head(blocks).bt = "text" THEN Get(Head(blocks).text, "") ELSE "")
         \o BlockTexts(Tail(blocks))

\* The for-loop over proc.stdout: acc is [exc, text, result_data, written]; the
\* loop ends at the first line that raises something other than
\* JSONDecodeError.  Every non-empty line is written to the output file before
\* it is parsed (line 280); text is what text_output holds, and every piece of
\* it was also handed to on_output (lines 291-293).
RECURSIVE ReadLines(_, _)
ReadLines(lines, acc) ==
    IF lines = <<>> \/ acc.exc # "" THEN acc
    ELSE LET l == Head(lines)
             w == [acc EXCEPT !.written = Append(@, l)]
         IN
         ReadLines(Tail(lines),
            CASE l.t = "blank"     -> acc
              [] l.t = "bad"       -> w
              [] l.t = "nondict"   -> [w EXCEPT !.exc = "AttributeError"]
              [] l.t = "assistant" ->
                    [w EXCEPT !.text = @ \o BlockTexts(Get(l.blocks, <<>>))]
              [] l.t = "result"    -> [w EXCEPT !.result_data = <<l>>]
              [] OTHER             -> w)

\* An attempt that raised err: launched tells whether Popen returned (and the
\* output file was opened), written the lines written to it, emitted the text
\* handed to on_output before the exception.
AttemptRaised(err, launched, written, emitted) ==
    [raised |-> TRUE, error |-> err, is_error |-> FALSE, text |-> "", cost |-> 0,
     duration |-> 0, msg |-> "", launched |-> launched, written |-> written,
     emitted |-> emitted]

\* The body of the try block (lines 265-345) for subprocess behaviour b, with the
\* identifier resolution res made by _build_command.
RunAttempt(b, res) ==
    IF res.raised THEN AttemptRaised(res.error, FALSE, <<>>, "")
    ELSE IF ~b.launch THEN AttemptRaised(b.exc, FALSE, <<>>, "")
    ELSE LET acc == ReadLines(b.lines, [exc |-> "", text |-> "", result_data |-> <<>>,
                                        written |-> <<>>])
             rd  == Get(acc.result_data, Line("result"))
         IN  IF acc.exc # "" THEN AttemptRaised(acc.exc, TRUE, acc.written, acc.text)
             ELSE IF b.rc # 0
                  THEN AttemptRaised("CLI error: " \o b.stderr, TRUE, acc.written, acc.text)
             ELSE [raised |-> FALSE, error |-> "", is_error |-> Get(rd.is_error, FALSE),
                   text |-> acc.text, cost |-> Get(rd.cost, 0),
                   duration |-> Get(rd.dur, 0), msg |-> Get(rd.msg, "Unknown error"),
                   launched |-> TRUE, written |-> acc.written, emitted |-> acc.text]

\* Mutant of Backoff: exponent off by one.
BackoffBug(attempt) == IF attempt > 1 THEN 2 ^ attempt ELSE 0

\* delay = 2 ** (attempt - 1), slept before every attempt but the first
Backoff(attempt) == IF attempt > 1 THEN 2 ^ (attempt - 1) ELSE 0

\* Mutant of CanAttempt: one attempt too many.
CanAttemptBug(attempt, max) == attempt <= max

\* while attempt < self.config.max_retries
CanAttempt(attempt, max) == attempt < max

\* Mutant of TaskResult: the error message is dropped.
TaskResultBug(prompt, status, output, attempts, error) ==
    [prompt |-> prompt, status |-> status, output |-> output, attempts |-> attempts,
     error |-> None]

TaskResult(prompt, status, output, attempts, error) ==
    [prompt |-> prompt, status |-> status, output |-> output, attempts |-> attempts,
     error |-> error]

NoResult == TaskResult(<<>>, "none", "", 0, None)
\* The locals of run_task, and (history) the waits made before each attempt, the
\* number of attempts whose behaviour was a failure, the last attempt's class
\* and the error it raised.
\* Further history: inits, the initialization subprocesses launched by the
\* session_id property during the call; cmds, the command built by each attempt
\* whose _build_command returned; outFile, the content of the task's output file;
\* lost, whether a line written to that file during the call has been removed
\* from it; emitted, the concatenation of the chunks handed to on_output;
\* warned, whether the budget warning was logged; read, the lines the running
\* attempt has taken from proc.stdout so far.
NoTask   == [prompt |-> <<>>, attempt |-> 0, last_error |-> None, waits |-> <<>>,
             fails |-> 0, lastClass |-> "none", lastErr |-> None,
             inits |-> 0, cmds |-> <<>>, outFile |-> <<>>, lost |-> FALSE, emitted |-> "",
             warned |-> FALSE, read |-> <<>>]
NewTask(prompt) == [NoTask EXCEPT !.prompt = prompt]

---------------------------------------------------------------------------
\* AgentService: state machine of run_task and process_queue.

\* Lines of a queue file, as the file iterator yields them.
LBlank    == <<"\n">>
LSpaces   == <<" ", "\t", "U+000B", "\n">>
LNote     == <<"#", " ", "n", "o", "t", "e", "\n">>
LIndented == <<"\f", "U+00A0", "#", "x", "\n">>
LA        == <<"a", "\n">>
LB        == <<" ", "b", "U+000B", "\r", "\n">>
LHash     == <<"c", "#", "\n">>

\* Queue files explored; the fourth is the spec's end-to-end scenario.
QueueFiles == { <<>>, <<LNote>>, <<LBlank, LSpaces, LIndented>>, <<LA, LNote, LB>>,
                <<LB, LBlank, LA>>, <<LIndented, LHash>>, <<LA>> }

\* Mutant of SkipLine: comment lines are run as prompts.
SkipLineBug(line) == line = <<>>

\* if not line or line.startswith("#"): continue      (line already stripped)
SkipLine(line) == line = <<>> \/ Head(line) = "#"

\* Mutant of LoopBreaks: the flag is never honoured.
LoopBreaksBug(flag) == FALSE

\* if self._shutdown_requested: break
LoopBreaks(flag) == flag

\* if task_num > 0 and not self._shutdown_requested
ShouldArchive(n, flag) == n > 0 /\ ~flag

\* A path and what it holds.
File(lines) == [exists |-> TRUE, lines |-> lines]
NoFile      == [exists |-> FALSE, lines |-> <<>>]

\* Mutant of Renamed: the queue file is left in place.
RenamedBug(file) == file

\* queue_path.rename(archive_path): what is left at the queue path
Renamed(file) == NoFile

\* last_error = str(e)
KeepError(old, new) == new

\* ServiceStats() as constructed: lines 121-129
ServiceStats ==
    [tasks_completed |-> 0, tasks_failed |-> 0, total_cost_usd |-> 0, total_duration_ms |-> 0]

\* Config.budget_usd explored: None (BUDGET_USD unset or 0) and a ceiling of 1.
Budgets == {<<>>, <<1>>}

\* Mutant of OverBudget: the ceiling itself already counts as exceeded.
OverBudgetBug(total, budget) == budget # <<>> /\ total >= budget[1]

\* if self.config.budget_usd and self.stats.total_cost_usd > self.config.budget_usd
OverBudget(total, budget) == budget # <<>> /\ total > budget[1]

\* Mutant of Tally: a failed task is not counted.
TallyBug(st, status) ==
    IF status = "success" THEN [st EXCEPT !.tasks_completed = @ + 1] ELSE st

\* self.stats.tasks_completed += 1 before a SUCCESS result is returned (line
\* 334), self.stats.tasks_failed += 1 before a FAILED one (lines 320, 352)
Tally(st, status) ==
    IF status = "success" THEN [st EXCEPT !.tasks_completed = @ + 1]
    ELSE [st EXCEPT !.tasks_failed = @ + 1]

\* Mutant of BuildCommand: the resume flag carries no identifier.
BuildCommandBug(prompt, id) == [prompt |-> prompt, resume |-> ""]

\* _build_command: [..., "--resume", self.session_id, ..., prompt]
BuildCommand(prompt, id) == [prompt |-> prompt, resume |-> id]

\* open(output_file, "w"): what the file holds once it is opened
Truncated(file) == <<>>

\* on_output is passed by main (single prompt) and by run_interactive
\* (on_output = print); process_queue calls run_task without it.
HasOnOutput(m) == m \in {"direct", "interactive"}

\* main of agent-service.py, single prompt mode:
\* sys.exit(0 if result.status == TaskStatus.SUCCESS else 1)
ExitCode(r) == IF r.status = "success" THEN 0 ELSE 1

\* The output of the initialization call the service would make.
SvcInitOut == [rc |-> 0, json |-> TRUE, sid |-> <<"s1">>, mints |-> 1]

NoFlag == [pc |-> "none", started |-> 0]

SvcInit ==
    /\ svcPc = "idle" /\ mode = "none" /\ calls = 0
    /\ maxRetries \in 0..MaxRetriesCfg
    /\ budgetUsd \in Budgets
    /\ queueFile \in {File(q) : q \in QueueFiles} \cup {NoFile}
    /\ opened = FALSE /\ openLines = <<>> /\ pos = 0 /\ taskNum = 0 /\ results = <<>>
    /\ shutdown = FALSE
    /\ stats = ServiceStats
    /\ task = NoTask /\ lastResult = NoResult
    /\ started = 0 /\ flagAt = NoFlag

\* main() runs one mode per process: a single run_task and sys.exit, the
\* interactive loop, or process_queue, once or (--daemon) while not shut down.
MayCall ==
    /\ svcPc \in {"idle", "done"} /\ calls < MaxCalls
    /\ mode = "none" \/ (mode = "queue" /\ ~shutdown)

\* main: service.run_task(args.prompt, on_output=...)
RunTaskCall(p) ==
    /\ svcPc = "idle" /\ mode = "none"
    /\ mode' = "direct" /\ calls' = calls + 1
    /\ task' = NewTask(p) /\ lastResult' = NoResult
    /\ svcPc' = "task"
    /\ UNCHANGED <<maxRetries, budgetUsd,
                   queueFile, opened, openLines, pos, taskNum, results,
                   shutdown, stats, started, flagAt>>
    /\ UNCHANGED <<clientVars, streamVars, sessVars>>

\* run_interactive up to its loop, lines 408-413: the banner reads
\* self.session_id, which caches the identifier of the session file or, with
\* no session file, raises out of run_interactive and main.
RunInteractive ==
    /\ svcPc = "idle" /\ mode = "none"
    /\ mode' = "interactive"
    /\ LET res == ResolveAlways(cachedId, sessionFile, SvcInitOut, 0) IN
       /\ cachedId' = res.cached /\ sessionFile' = res.file
       /\ svcPc' = IF res.raised THEN "done" ELSE "prompt"
    /\ UNCHANGED <<calls, maxRetries, budgetUsd,
                   queueFile, opened, openLines, pos, taskNum, results,
                   shutdown, stats, task, lastResult, started, flagAt>>
    /\ UNCHANGED <<client, launches, exits, minted, oldIds, lastCall, streamVars, sessVars>>

\* while not self._shutdown_requested: line 415, then the wait in input()
InteractiveLoop ==
    /\ svcPc = "prompt"
    /\ svcPc' = IF shutdown THEN "done" ELSE "input"
    /\ UNCHANGED <<mode, calls, maxRetries, budgetUsd,
                   queueFile, opened, openLines, pos, taskNum, results,
                   shutdown, stats, task, lastResult, started, flagAt>>
    /\ UNCHANGED <<clientVars, streamVars, sessVars>>

\* str.lower() on the characters of the inputs explored
LowerChar(c) ==
    CASE c = "E" -> "e" [] c = "X" -> "x" [] c = "I" -> "i" [] c = "T" -> "t"
      [] c = "S" -> "s" [] c = "A" -> "a" [] c = "P" -> "p" [] OTHER -> c
Lower(q) == [i \in 1..Len(q) |-> LowerChar(q[i])]

\* What input() gives: a line typed on stdin (without its newline), or EOF.
EOF == [eof |-> TRUE]
Typed(chars) == [eof |-> FALSE, chars |-> chars]
Inputs == { EOF, Typed(<<>>), Typed(<<" ", "\t">>), Typed(<<"e", "x", "i", "t">>),
            Typed(<<" ", "E", "x", "i", "T">>), Typed(<<"S", "t", "a", "t", "s", " ">>),
            Typed(<<"p">>), Typed(<<" ", "p", "\t">>) }

\* input() returned i: lines 416-434.  EOF and "exit" leave the loop, an empty
\* line and "stats" go back to the while test, anything else is handed,
\* stripped, to run_task with on_output.
InteractiveInput(i) ==
    /\ svcPc = "input"
    /\ LET prompt == IF i.eof THEN <<>> ELSE Strip(i.chars) IN
       IF i.eof \/ Lower(prompt) = <<"e", "x", "i", "t">>
       THEN svcPc' = "done" /\ UNCHANGED <<calls, task, lastResult>>
       ELSE IF prompt = <<>> \/ Lower(prompt) = <<"s", "t", "a", "t", "s">>
       THEN svcPc' = "prompt" /\ UNCHANGED <<calls, task, lastResult>>
       ELSE /\ calls < MaxCalls
            /\ calls' = calls + 1
            /\ task' = NewTask(prompt) /\ lastResult' = NoResult
            /\ svcPc' = "task"
    /\ UNCHANGED <<mode, maxRetries, budgetUsd,
                   queueFile, opened, openLines, pos, taskNum, results,
                   shutdown, stats, started, flagAt>>
    /\ UNCHANGED <<clientVars, streamVars, sessVars>>

\* process_queue up to the for-loop: lines 364-375
ProcessQueueCall ==
    /\ MayCall
    /\ mode' = "queue" /\ calls' = calls + 1
    /\ results' = <<>> /\ taskNum' = 0 /\ pos' = 0
    /\ IF ~queueFile.exists
       THEN opened' = FALSE /\ openLines' = <<>> /\ svcPc' = "done"
       ELSE opened' = TRUE /\ openLines' = queueFile.lines /\ svcPc' = "loop"
    /\ UNCHANGED <<maxRetries, budgetUsd,
                   queueFile, shutdown, stats, task, lastResult, started, flagAt>>
    /\ UNCHANGED <<clientVars, streamVars, sessVars>>

\* for line in f: if self._shutdown_requested: break      (lines 376-379)
LoopTop ==
    /\ svcPc = "loop"
    /\ IF pos = Len(openLines) \/ LoopBreaks(shutdown)
       THEN svcPc' = "archive" /\ pos' = pos
       ELSE svcPc' = "dispatch" /\ pos' = pos + 1
    /\ UNCHANGED <<mode, calls, maxRetries, budgetUsd,
                   queueFile, opened, openLines, taskNum, results,
                   shutdown, stats, task, lastResult, started, flagAt>>
    /\ UNCHANGED <<clientVars, streamVars, sessVars>>

\* lines 381-388: strip, skip blank and comment lines, else call run_task
Dispatch ==
    /\ svcPc = "dispatch"
    /\ LET line == Strip(openLines[pos]) IN
       IF SkipLine(line)
       THEN svcPc' = "loop" /\ UNCHANGED <<taskNum, task, lastResult, started>>
       ELSE /\ taskNum' = taskNum + 1 /\ started' = started + 1
            /\ task' = NewTask(line) /\ lastResult' = NoResult
            /\ svcPc' = "task"
    /\ UNCHANGED <<mode, calls, maxRetries, budgetUsd,
                   queueFile, opened, openLines, pos, results,
                   shutdown, stats, flagAt>>
    /\ UNCHANGED <<clientVars, streamVars, sessVars>>

\* run_task returns r to its caller; process_queue appends it (line 389) and
\* goes on to the sleep of line 392, run_interactive prints the cost and goes
\* back to its while test, main exits
Return(r) ==
    /\ lastResult' = r
    /\ IF mode = "queue"
       THEN results' = Append(results, r) /\ svcPc' = "pause"
       ELSE /\ results' = results
            /\ svcPc' = IF mode = "interactive" THEN "prompt" ELSE "done"

\* The positions of the main thread inside run_task: at the while test, in the
\* backoff sleep, in the read of the subprocess's output.
TaskPcs == {"task", "sleep", "read"}

\* An attempt of run_task that raised error err: the except clause, lines 347-349
AttemptFailed(t, err) ==
    [t EXCEPT !.fails = @ + 1, !.lastClass = "fail", !.lastErr = err,
              !.last_error = KeepError(@, err), !.warned = FALSE, !.read = <<>>]

\* The head of an iteration of run_task's while loop, up to the end of the
\* backoff sleep: lines 255-262
TaskStart ==
    /\ svcPc = "task" /\ CanAttempt(task.attempt, maxRetries)
    /\ task' = [task EXCEPT !.attempt = @ + 1, !.waits = Append(@, Backoff(task.attempt + 1))]
    /\ svcPc' = "sleep"
    /\ UNCHANGED <<mode, calls, maxRetries, budgetUsd,
                   queueFile, opened, openLines, pos, taskNum, results,
                   shutdown, stats, lastResult, started, flagAt>>
    /\ UNCHANGED <<clientVars, streamVars, sessVars>>

\* The command is built, the subprocess launched and the output file opened for
\* writing: lines 264-274.  Of behaviour b only the launch matters here.
TaskLaunch(b) ==
    /\ svcPc = "sleep"
    /\ LET res == ResolveAlways(cachedId, sessionFile, SvcInitOut, 0)
           a   == RunAttempt(b, res)
           t2  == [task EXCEPT !.inits = @ + Len(res.launches)]
       IN  /\ cachedId' = res.cached /\ sessionFile' = res.file
           /\ IF ~a.launched
              THEN /\ task' = AttemptFailed(t2, a.error)
                   /\ svcPc' = "task"
              ELSE /\ task' = [t2 EXCEPT
                                 !.cmds = Append(@, BuildCommand(task.prompt, res.id)),
                                 !.outFile = Truncated(@),
                                 !.lost = @ \/ ~IsPrefix(task.outFile, Truncated(task.outFile))]
                   /\ svcPc' = "read"
    /\ UNCHANGED <<mode, calls, maxRetries, budgetUsd,
                   queueFile, opened, openLines, pos, taskNum, results,
                   shutdown, stats, lastResult, started, flagAt>>
    /\ UNCHANGED <<client, launches, exits, minted, oldIds, lastCall, streamVars, sessVars>>

\* One turn of "for line in proc.stdout", lines 276-299: the next line of the
\* subprocess (behaviour b, whose earlier lines are the ones read) arrives, is
\* written to the output file and parsed, and on_output gets its text.  An
\* exception other than JSONDecodeError ends the attempt.
TaskReadLine(b) ==
    /\ svcPc = "read" /\ b.launch
    /\ Len(task.read) < Len(b.lines) /\ IsPrefix(task.read, b.lines)
    /\ LET l   == b.lines[Len(task.read) + 1]
           acc == ReadLines(<<l>>, [exc |-> "", text |-> "", result_data |-> <<>>,
                                    written |-> <<>>])
           t2  == [task EXCEPT !.read = Append(@, l),
                               !.outFile = @ \o acc.written,
                               !.emitted = IF HasOnOutput(mode) THEN @ \o acc.text ELSE @]
       IN  IF acc.exc # ""
           THEN task' = AttemptFailed(t2, acc.exc) /\ svcPc' = "task"
           ELSE task' = t2 /\ svcPc' = svcPc
    /\ UNCHANGED <<mode, calls, maxRetries, budgetUsd,
                   queueFile, opened, openLines, pos, taskNum, results,
                   shutdown, stats, lastResult, started, flagAt>>
    /\ UNCHANGED <<clientVars, streamVars, sessVars>>

\* The output of the subprocess (behaviour b) is at its end: proc.wait(), the
\* exit code, the statistics and the TaskResult, lines 301-349
TaskReadEnd(b) ==
    /\ svcPc = "read" /\ b.launch /\ b.lines = task.read
    /\ LET a       == RunAttempt(b, Resolved(cachedId, sessionFile, <<>>))
           total   == stats.total_cost_usd + a.cost
           t3      == [task EXCEPT !.lastClass = b.class, !.lastErr = None,
                                   !.warned = OverBudget(total, budgetUsd),
                                   !.read = <<>>]
           counted == [stats EXCEPT !.total_cost_usd = total,
                                    !.total_duration_ms = @ + a.duration]
       IN  IF a.raised
           THEN /\ task' = AttemptFailed(task, a.error)
                /\ svcPc' = "task"
                /\ UNCHANGED <<stats, results, lastResult>>
           ELSE /\ task' = t3
                /\ IF a.is_error
                   THEN /\ stats' = Tally(counted, "failed")
                        /\ Return(TaskResult(task.prompt, "failed", a.text, task.attempt, a.msg))
                   ELSE /\ stats' = Tally(counted, "success")
                        /\ Return(TaskResult(task.prompt, "success", a.text, task.attempt,
                                             None))
    /\ UNCHANGED <<mode, calls, maxRetries, budgetUsd,
                   queueFile, opened, openLines, pos, taskNum,
                   shutdown, started, flagAt>>
    /\ UNCHANGED <<clientVars, streamVars, sessVars>>

\* The small delay between two tasks of the queue: line 392
Pause ==
    /\ svcPc = "pause"
    /\ svcPc' = "loop"
    /\ UNCHANGED <<mode, calls, maxRetries, budgetUsd,
                   queueFile, opened, openLines, pos, taskNum, results,
                   shutdown, stats, task, lastResult, started, flagAt>>
    /\ UNCHANGED <<clientVars, streamVars, sessVars>>

\* All retries exhausted: lines 351-360
TaskExhausted ==
    /\ svcPc = "task" /\ ~CanAttempt(task.attempt, maxRetries)
    /\ stats' = Tally(stats, "failed")
    /\ Return(TaskResult(task.prompt, "failed", "", task.attempt, task.last_error))
    /\ UNCHANGED <<mode, calls, maxRetries, budgetUsd,
                   queueFile, opened, openLines, pos, taskNum,
                   shutdown, task, started, flagAt>>
    /\ UNCHANGED <<clientVars, streamVars, sessVars>>

\* Archive processed queue: lines 394-406
Archive ==
    /\ svcPc = "archive"
    /\ queueFile' = IF ShouldArchive(taskNum, shutdown) THEN Renamed(queueFile) ELSE queueFile
    /\ svcPc' = "done"
    /\ UNCHANGED <<mode, calls, maxRetries, budgetUsd, opened, openLines, pos, taskNum, results,
                   shutdown, stats, task, lastResult, started, flagAt>>
    /\ UNCHANGED <<clientVars, streamVars, sessVars>>

\* _handle_shutdown, run by the interpreter between two bytecodes of the main thread
Signal ==
    /\ ~shutdown
    /\ shutdown' = TRUE
    /\ flagAt' = [pc |-> svcPc, started |-> started]
    /\ UNCHANGED <<svcPc, mode, calls, maxRetries, budgetUsd,
                   queueFile, opened, openLines, pos,
                   taskNum, results, stats, task, lastResult, started>>
    /\ UNCHANGED <<clientVars, streamVars, sessVars>>

ClientIdle ==
    /\ launches = <<>> /\ exits = <<>> /\ minted = 0 /\ oldIds = {}
    /\ lastCall = [op |-> "none", raised |-> FALSE, fresh |-> FALSE, prev |-> "none", n |-> 0,
                   resets |-> 0]

\* What a streaming run did: raised (with the error) or returned (result holds
\* the AgentResult), and the chunks handed to on_text along the way.
StreamOut(raised, error, chunks, result) ==
    [raised |-> raised, error |-> error, chunks |-> chunks, result |-> result]
NoOut == StreamOut(FALSE, "", <<>>, <<>>)

\* Session names explored, and a path of the storage directory with no file.
Names == {"A", "B"}
NoDoc == [j |-> "nofile"]

\* A StatefulAgent just constructed on an empty storage directory.
NoSnap == [op |-> "none"]
SessIdle ==
    /\ store = [n \in Names |-> NoDoc] /\ heap = <<>> /\ current = 0
    /\ snap = NoSnap /\ procs = <<>>

\* No StreamParser has been constructed.
NoParser == [kind |-> "none"]

StreamIdle ==
    /\ sInput = [lines |-> <<>>, rc |-> 0] /\ sDone = "none" /\ sPos = 0 /\ sOut = NoOut
    /\ parser = NoParser

Init ==
    /\ SvcInit
    /\ client = "AgentService" /\ sessionFile \in {Absent, "s0\n"} /\ cachedId = None
    /\ ClientIdle /\ StreamIdle /\ SessIdle

Next ==
    \/ \E p \in {<<"p">>} : RunTaskCall(p)
    \/ RunInteractive
    \/ InteractiveLoop
    \/ \E i \in Inputs : InteractiveInput(i)
    \/ ProcessQueueCall
    \/ LoopTop
    \/ Dispatch
    \/ TaskStart
    \/ \E b \in SvcBehaviours : TaskLaunch(b)
    \/ \E b \in SvcBehaviours : TaskReadLine(b)
    \/ \E b \in SvcBehaviours : TaskReadEnd(b)
    \/ Pause
    \/ TaskExhausted
    \/ Archive
    \/ Signal

Spec == Init /\ [][Next]_vars

---------------------------------------------------------------------------
\* The session clients: ClaudeAgent and AgentService (always resume),
\* ClaudeWrapper, CodexWrapper and CodexAgent (resume when an identifier is
\* cached).

AlwaysResume == {"ClaudeAgent", "AgentService"}
CondResume   == {"ClaudeWrapper", "CodexWrapper", "CodexAgent"}

\* The identifiers the external CLI hands out, in order of creation.
IdNames == <<"s1", "s2", "s3", "s4", "s5", "s6">>
FreshId(n) == IdNames[n + 1]

\* What one launch of the CLI may print, given its resume flag r and the number n
\* of identifiers created so far: rc is the exit code, json whether stdout
\* parses, sid the session_id / thread.started thread_id it reports (a new
\* identifier, the resumed one, or none).
CliOutputs(r, n) ==
    {[rc |-> 0, json |-> TRUE, sid |-> <<>>, mints |-> 0],
     [rc |-> 1, json |-> FALSE, sid |-> <<>>, mints |-> 0],
     [rc |-> 1, json |-> TRUE, sid |-> <<>>, mints |-> 0]}
    \cup (IF n < MaxMint
          THEN {[rc |-> 0, json |-> TRUE, sid |-> <<FreshId(n)>>, mints |-> 1]} ELSE {})
    \cup (IF r # <<>> /\ r[1] # ""
          THEN {[rc |-> 0, json |-> TRUE, sid |-> r, mints |-> 0]} ELSE {})

\* self._thread_id or ""
OrEmpty(c) == IF Truthy(c) THEN c ELSE ""

Executed(id, cached, l) ==
    [raised |-> FALSE, error |-> "", id |-> id, cached |-> cached, launches |-> <<l>>]
ExecRaised(err, cached, l) ==
    [raised |-> TRUE, error |-> err, id |-> "", cached |-> cached, launches |-> <<l>>]

\* ClaudeWrapper._execute: --resume only if self._session_id; the exit code is
\* not looked at, json.loads(proc.stdout) raises on anything that is not JSON.
ClaudeWrapperExecute(cached, file, o, kind) ==
    LET l == Launch(kind, IF Truthy(cached) THEN <<cached>> ELSE <<>>, file) IN
    IF ~o.json THEN ExecRaised("JSONDecodeError", cached, l)
    ELSE Executed(Get(o.sid, ""), cached, l)

\* CodexWrapper._execute: resume only if self._thread_id; non-zero exit raises.
CodexWrapperExecute(cached, file, o, kind) ==
    LET l == Launch(kind, IF Truthy(cached) THEN <<cached>> ELSE <<>>, file) IN
    IF o.rc # 0 THEN ExecRaised("codex exec failed", cached, l)
    ELSE IF ~o.json THEN ExecRaised("JSONDecodeError", cached, l)
    ELSE Executed(Get(o.sid, OrEmpty(cached)), cached, l)

\* CodexAgent._run_json after the command is built with resume flag r: lines
\* 113-152, with the adoption of a reported thread id when none is cached.
CodexRunJson(cached, file, o, kind, r) ==
    LET l == Launch(kind, r, file) IN
    IF o.rc # 0 THEN ExecRaised("codex exec failed", cached, l)
    ELSE IF ~o.json THEN ExecRaised("JSONDecodeError", cached, l)
    ELSE LET c2 == IF ~Truthy(cached) /\ Truthy(Get(o.sid, "")) THEN o.sid[1] ELSE cached
         IN  Executed(Get(o.sid, OrEmpty(c2)), c2, l)

\* The initialization call of a conditional-resume client.
InitCall(c, cached, file, o) ==
    CASE c = "ClaudeWrapper" -> ClaudeWrapperExecute(cached, file, o, "init")
      [] c = "CodexWrapper"  -> CodexWrapperExecute(cached, file, o, "init")
      [] OTHER               -> CodexRunJson(cached, file, o, "init", <<>>)

\* The session_id / thread_id property of a conditional-resume client.
ResolveCond(c, cached, file, o) ==
    IF Truthy(cached) THEN Resolved(cached, file, <<>>)
    ELSE IF file # Absent THEN Resolved(StripText(file), file, <<>>)
    ELSE LET ex == InitCall(c, cached, file, o) IN
         IF ex.raised THEN ResolveRaised(ex.error, ex.cached, file, ex.launches)
         ELSE Resolved(ex.id, ex.id, ex.launches)

\* The property of any client.
Resolve(c, cached, file, o) ==
    IF c \in AlwaysResume THEN ResolveAlways(cached, file, o, 0)
    ELSE ResolveCond(c, cached, file, o)

\* The resume flag of the call that follows resolution res.
ResumeFlag(c, res) ==
    IF c \in {"ClaudeWrapper", "CodexWrapper"}
    THEN (IF Truthy(res.cached) THEN <<res.cached>> ELSE <<>>)
    ELSE <<res.id>>

\* The substantive call of run(prompt) after resolution res, with output o:
\* ClaudeWrapper/CodexWrapper _execute, CodexAgent._run_json(resume=True),
\* ClaudeAgent._run_once.  (CodexAgent and ClaudeAgent read the property once
\* more while building the command; res is what that read returns.)
RunCall(c, res, o) ==
    CASE c = "ClaudeWrapper" -> ClaudeWrapperExecute(res.cached, res.file, o, "run")
      [] c = "CodexWrapper"  -> CodexWrapperExecute(res.cached, res.file, o, "run")
      [] c = "CodexAgent"    -> CodexRunJson(res.cached, res.file, o, "run", <<res.id>>)
      [] OTHER ->
            LET l == Launch("run", <<res.id>>, res.file) IN
            IF o.rc # 0 THEN ExecRaised("Claude CLI failed", res.cached, l)
            ELSE IF ~o.json THEN ExecRaised("JSONDecodeError", res.cached, l)
            ELSE Executed(Get(o.sid, ""), res.cached, l)

\* session_file.unlink(): what is left at the session path
Unlinked(file) == Absent

\* The identifiers held by the client: cached, or in the file.
Stored(cached, file) ==
    (IF Truthy(cached) THEN {cached} ELSE {})
    \cup (IF file # Absent /\ StripText(file) # "" THEN {StripText(file)} ELSE {})

\* History of the last operation: which one, whether it raised, whether it
\* read the property with nothing cached and nothing persisted, the operation
\* before it, and the operations and resets made so far.
Call(op, raised, fresh) ==
    [op |-> op, raised |-> raised, fresh |-> fresh, prev |-> lastCall.op,
     n |-> lastCall.n + 1, resets |-> lastCall.resets + (IF op = "reset" THEN 1 ELSE 0)]

NoCall == [op |-> "none", raised |-> FALSE, fresh |-> FALSE, prev |-> "none", n |-> 0,
           resets |-> 0]

ClientInit ==
    /\ client \in AlwaysResume \cup CondResume
    /\ sessionFile \in {Absent, "s0\n", "\n"} /\ cachedId = None
    /\ launches = <<>> /\ exits = <<>> /\ minted = 0 /\ oldIds = {}
    /\ lastCall = NoCall

\* Whether no identifier is cached and none is persisted.
Unresolved == ~Truthy(cachedId) /\ sessionFile = Absent

\* A read of the session_id / thread_id property (main prints it after --reset,
\* AgentService prints it for --stats and in interactive mode).
ClientAccess ==
    /\ lastCall.n < MaxOps
    /\ \E o \in CliOutputs(<<>>, minted) :
         LET res == Resolve(client, cachedId, sessionFile, o) IN
         /\ cachedId' = res.cached /\ sessionFile' = res.file
         /\ launches' = res.launches /\ exits' = ExitsOf(res.launches, o.rc)
         /\ minted' = minted + (IF res.launches # <<>> THEN o.mints ELSE 0)
         /\ lastCall' = Call("access", res.raised, Unresolved)
    /\ UNCHANGED <<client, oldIds, svcVars, streamVars, sessVars>>

\* run(prompt) in batch mode.
ClientRun ==
    /\ lastCall.n < MaxOps /\ client # "AgentService"
    /\ \E o1 \in CliOutputs(<<>>, minted) :
         LET res  == Resolve(client, cachedId, sessionFile, o1)
             m1   == minted + (IF res.launches # <<>> THEN o1.mints ELSE 0)
             \* CodexAgent._exec_cmd reads self.thread_id again
             res2 == IF client = "CodexAgent" /\ ~res.raised
                     THEN Resolve(client, res.cached, res.file, o1) ELSE res
         IN  IF res.raised
             THEN /\ cachedId' = res.cached /\ sessionFile' = res.file
                  /\ launches' = res.launches /\ minted' = m1
                  /\ exits' = ExitsOf(res.launches, o1.rc)
                  /\ lastCall' = Call("run", TRUE, Unresolved)
             ELSE \E o2 \in CliOutputs(ResumeFlag(client, res2), m1) :
                    LET ex == RunCall(client, res2, o2) IN
                    /\ cachedId' = ex.cached /\ sessionFile' = res2.file
                    /\ launches' = res.launches \o ex.launches
                    /\ exits' = ExitsOf(res.launches, o1.rc) \o ExitsOf(ex.launches, o2.rc)
                    /\ minted' = m1 + o2.mints
                    /\ lastCall' = Call("run", ex.raised, Unresolved)
    /\ UNCHANGED <<client, oldIds, svcVars, streamVars, sessVars>>

\* ClaudeWrapper.reset / CodexWrapper.reset; CodexAgent.reset_session and
\* ClaudeAgent.reset_session, which end with a read of the property.
ClientReset ==
    /\ lastCall.n < MaxOps /\ client # "AgentService"
    /\ oldIds' = oldIds \cup Stored(cachedId, sessionFile)
    /\ IF client \in {"ClaudeWrapper", "CodexWrapper"}
       THEN /\ sessionFile' = Unlinked(sessionFile) /\ cachedId' = None
            /\ launches' = <<>> /\ exits' = <<>> /\ minted' = minted
            /\ lastCall' = Call("reset", FALSE, FALSE)
       ELSE \E o \in CliOutputs(<<>>, minted) :
              LET res == Resolve(client, None, Unlinked(sessionFile), o) IN
              /\ cachedId' = res.cached /\ sessionFile' = res.file
              /\ launches' = res.launches /\ exits' = ExitsOf(res.launches, o.rc)
              /\ minted' = minted + (IF res.launches # <<>> THEN o.mints ELSE 0)
              /\ lastCall' = Call("reset", res.raised, Unlinked(sessionFile) = Absent)
    /\ UNCHANGED <<client, svcVars, streamVars, sessVars>>

\* The process ends and a new one constructs the client on the same session file.
ClientRestart ==
    /\ lastCall.n < MaxOps /\ cachedId # None
    /\ cachedId' = None /\ launches' = <<>> /\ exits' = <<>>
    /\ lastCall' = Call("restart", FALSE, FALSE)
    /\ UNCHANGED <<client, sessionFile, minted, oldIds, svcVars, streamVars, sessVars>>

SvcIdle ==
    /\ svcPc = "idle" /\ mode = "none" /\ calls = 0 /\ maxRetries = 0
    /\ budgetUsd = <<>> /\ queueFile = NoFile
    /\ opened = FALSE /\ openLines = <<>> /\ pos = 0 /\ taskNum = 0 /\ results = <<>>
    /\ shutdown = FALSE
    /\ stats = ServiceStats
    /\ task = NoTask /\ lastResult = NoResult
    /\ started = 0 /\ flagAt = NoFlag

InitClient == ClientInit /\ SvcIdle /\ StreamIdle /\ SessIdle

NextClient == ClientAccess \/ ClientRun \/ ClientReset \/ ClientRestart

SpecClient == InitClient /\ [][NextClient]_vars

---------------------------------------------------------------------------
\* Streaming run(prompt, on_text) of ClaudeAgent and CodexAgent.

\* Longest sequence of output lines explored.
MaxEvents == 3

NoTextBlock == [bt |-> "text", text |-> <<>>]

\* {"type":"thread.started","thread_id":id}
ThreadStarted(id) == [Line("thread.started") EXCEPT !.sid = <<id>>]
\* {"type":"item.completed","item":{"type":it,"text":s}}
ItemCompleted(it, s) == [Line("item.completed") EXCEPT !.item = <<[it |-> it, text |-> <<s>>]>>]
\* {"type":"turn.completed","duration_ms":d}
TurnCompleted(d) == [Line("turn.completed") EXCEPT !.dur = <<d>>]
\* {"type":"turn.failed","error":e}
TurnFailed(e) == [Line("turn.failed") EXCEPT !.error = <<e>>]

\* The output lines explored.
StreamLines ==
    { Line("blank"), Line("bad"), Line("nondict"), Line("system"),
      Assistant(<<TextBlock("Hi")>>), Assistant(<<ToolBlock, NoTextBlock>>),
      ResultLine(FALSE, 1, 2, "Hi"), ThreadStarted("t1"),
      ItemCompleted("agent_message", "yo"), TurnCompleted(5), TurnFailed("bad") }

\* {"type":"turn.completed","message":m}
TurnMessage(m) == [Line("turn.completed") EXCEPT !.message = <<m>>]

\* Further outputs: a result event flagged as an error; two assistant lines
\* with different texts (one with two text blocks around a tool block) in
\* both orders; two result events that differ in cost, duration and error
\* flag, in both orders; and terminal events that carry a message, alone and
\* after an assistant text.
StreamExtras ==
    { <<Assistant(<<TextBlock("no")>>), ResultLine(TRUE, 1, 2, "boom")>>,
      <<Assistant(<<TextBlock("Hi")>>),
        Assistant(<<TextBlock(" "), ToolBlock, TextBlock("there")>>),
        ResultLine(FALSE, 1, 2, "Hi")>>,
      <<Assistant(<<TextBlock(" "), ToolBlock, TextBlock("there")>>),
        Assistant(<<TextBlock("Hi")>>), ResultLine(TRUE, 3, 4, "boom")>>,
      <<ResultLine(TRUE, 3, 4, "boom"),
        Assistant(<<TextBlock(" "), ToolBlock, TextBlock("there")>>),
        ResultLine(FALSE, 1, 2, "Hi")>>,
      <<Assistant(<<TextBlock("Hi")>>), ResultLine(FALSE, 1, 2, "Hi"),
        Assistant(<<TextBlock(" "), ToolBlock, TextBlock("there")>>),
        ResultLine(TRUE, 3, 4, "boom")>>,
      <<TurnMessage("fin")>>,
      <<Assistant(<<TextBlock("Hi")>>), TurnMessage("fin")>> }

StreamInputs ==
    { [lines |-> q, rc |-> rc] :
        q \in UNION { [1..n -> StreamLines] : n \in 0..MaxEvents } \cup StreamExtras,
        rc \in {0, 1} }

\* Mutant of Join: the chunks are not put into the text.
JoinBug(chunks) == ""

\* "".join(chunks)
RECURSIVE Join(_)
Join(chunks) == IF chunks = <<>> THEN "" ELSE Head(chunks) \o Join(Tail(chunks))

\* ClaudeAgent.run, the loop over the content blocks of an assistant event:
\* block["text"] raises KeyError on a text block without that key.
RECURSIVE ClaudeBlocks(_, _)
ClaudeBlocks(blocks, acc) ==
    IF blocks = <<>> \/ acc.exc # "" THEN acc
    ELSE LET b == Head(blocks) IN
         ClaudeBlocks(Tail(blocks),
            IF b.bt # "text" THEN acc
            ELSE IF b.text = <<>> THEN [acc EXCEPT !.exc = "KeyError"]
            ELSE [acc EXCEPT !.chunks = Append(@, b.text[1])])

\* ClaudeAgent.stream driven by the loop of run: acc is [exc, chunks, final].
\* json.loads raises on a line that is not JSON, data.get on JSON that is not
\* an object; either ends the run.
RECURSIVE ClaudeStreamLoop(_, _)
ClaudeStreamLoop(lines, acc) ==
    IF lines = <<>> \/ acc.exc # "" THEN acc
    ELSE LET l == Head(lines) IN
         ClaudeStreamLoop(Tail(lines),
            CASE l.t = "blank"     -> acc
              [] l.t = "bad"       -> [acc EXCEPT !.exc = "JSONDecodeError"]
              [] l.t = "nondict"   -> [acc EXCEPT !.exc = "AttributeError"]
              [] l.t = "assistant" -> ClaudeBlocks(Get(l.blocks, <<>>), acc)
              [] l.t = "result"    -> [acc EXCEPT !.final = <<l>>]
              [] OTHER             -> acc)

\* Mutant of MissingResult: a run without result event is not rejected.
MissingResultBug(final) == FALSE

\* if final_result is None
MissingResult(final) == final = <<>>

\* ClaudeAgent.run(prompt, on_text) on a subprocess that prints lines and exits
\* with rc; sid is what self.session_id returns.
ClaudeAgentRun(lines, rc, sid) ==
    LET acc == ClaudeStreamLoop(lines, [exc |-> "", chunks |-> <<>>, final |-> <<>>])
        fr  == Get(acc.final, Line("result"))
    IN  IF acc.exc # "" THEN StreamOut(TRUE, acc.exc, acc.chunks, <<>>)
        ELSE IF rc # 0 THEN StreamOut(TRUE, "Claude CLI failed", acc.chunks, <<>>)
        ELSE IF MissingResult(acc.final)
             THEN StreamOut(TRUE, "No result event received", acc.chunks, <<>>)
        ELSE StreamOut(FALSE, "", acc.chunks,
                <<[text |-> Join(acc.chunks), cost_usd |-> Get(fr.cost, 0),
                   duration_ms |-> Get(fr.dur, 0), session_id |-> Get(fr.sid, sid),
                   is_error |-> Get(fr.is_error, FALSE)]>>)

\* CodexAgent.run, the text blocks of an assistant event: block.get("text", "")
RECURSIVE CodexBlocks(_, _)
CodexBlocks(blocks, acc) ==
    IF blocks = <<>> THEN acc
    ELSE LET b == Head(blocks)
             text == IF b.bt = "text" THEN Get(b.text, "") ELSE ""
         IN  CodexBlocks(Tail(blocks),
                IF text # "" THEN [acc EXCEPT !.chunks = Append(@, text)] ELSE acc)

TerminalTypes == {"turn.completed", "turn.failed", "final", "result"}

\* Whether some event is JSON that is not an object: e.get raises on it.
HasNonDict(events) == \E i \in 1..Len(events) : events[i].t = "nondict"

\* CodexAgent.stream driven by the loop of run: acc is [exc, chunks, final,
\* thread, cached]; cached is self._thread_id, which adopts the thread id of a
\* thread.started event when none is cached.
RECURSIVE CodexStreamLoop(_, _)
CodexStreamLoop(lines, acc) ==
    IF lines = <<>> \/ acc.exc # "" THEN acc
    ELSE LET l == Head(lines) IN
         CodexStreamLoop(Tail(lines),
            CASE l.t = "blank"   -> acc
              [] l.t = "bad"     -> [acc EXCEPT !.exc = "JSONDecodeError"]
              [] l.t = "nondict" -> [acc EXCEPT !.exc = "AttributeError"]
              [] l.t = "thread.started" ->
                    [acc EXCEPT !.thread = <<l>>,
                                !.cached = IF Truthy(Get(l.sid, "")) /\ ~Truthy(@)
                                           THEN l.sid[1] ELSE @]
              [] l.t = "item.completed" ->
                    LET item == Get(l.item, [it |-> "", text |-> <<>>])
                        text == Get(item.text, "")
                    IN  IF item.it = "agent_message" /\ text # ""
                        THEN [acc EXCEPT !.chunks = Append(@, text)] ELSE acc
              [] l.t = "assistant" -> CodexBlocks(Get(l.blocks, <<>>), acc)
              [] l.t \in TerminalTypes -> [acc EXCEPT !.final = <<l>>]
              [] OTHER -> acc)

\* is_error of the AgentResult, from final_event (or {} when there is none)
CodexIsError(final) ==
    LET f == Get(final, Line("<none>")) IN
    f.t = "turn.failed" \/ Truthy(Get(f.error, "")) \/ Get(f.is_error, FALSE)

\* CodexAgent.run(prompt, on_text) after the thread id is resolved to cached:
\* out is what run did, cached the _thread_id it leaves.
CodexAgentRun(lines, rc, cached) ==
    LET acc == CodexStreamLoop(lines, [exc |-> "", chunks |-> <<>>, final |-> <<>>,
                                       thread |-> <<>>, cached |-> cached])
        f   == Get(acc.final, Line("<none>"))
        th  == Get(acc.thread, Line("<none>"))
    IN  [cached |-> acc.cached,
         out |-> IF acc.exc # "" THEN StreamOut(TRUE, acc.exc, acc.chunks, <<>>)
                 ELSE IF rc # 0 THEN StreamOut(TRUE, "codex exec failed", acc.chunks, <<>>)
                 ELSE StreamOut(FALSE, "", acc.chunks,
                         <<[text |-> Join(acc.chunks), duration_ms |-> Get(f.dur, 0),
                            thread_id |-> Get(th.sid, OrEmpty(acc.cached)),
                            is_error |-> CodexIsError(acc.final)]>>)]

\* The events of a batch run: [json.loads(l) for l in stdout.splitlines() if
\* l.strip()], with the exception the parse (or the first e.get) raises.
RECURSIVE BatchEvents(_, _)
BatchEvents(lines, acc) ==
    IF lines = <<>> \/ acc.exc # "" THEN acc
    ELSE LET l == Head(lines) IN
         BatchEvents(Tail(lines),
            CASE l.t = "blank"   -> acc
              [] l.t = "bad"     -> [acc EXCEPT !.exc = "JSONDecodeError"]
              [] OTHER           -> [acc EXCEPT !.events = Append(@, l)])

\* next((e for e in events if e.get("type") in types), {}), as <<e>> or <<>>
RECURSIVE FirstOf(_, _)
FirstOf(events, types) ==
    IF events = <<>> THEN <<>>
    ELSE IF Head(events).t \in types THEN <<Head(events)>>
    ELSE FirstOf(Tail(events), types)

\* The same search over reversed(events).
RECURSIVE LastOf(_, _)
LastOf(events, types) ==
    IF events = <<>> THEN <<>>
    ELSE IF events[Len(events)].t \in types THEN <<events[Len(events)]>>
    ELSE LastOf(SubSeq(events, 1, Len(events) - 1), types)

\* "".join of the text of the item.completed events whose item is an
\* agent_message: lines 126-130
RECURSIVE MessageTexts(_)
MessageTexts(events) ==
    IF events = <<>> THEN ""
    ELSE LET l    == Head(events)
             item == Get(l.item, [it |-> "", text |-> <<>>])
         IN  (IF l.t = "item.completed" /\ item.it = "agent_message"
              THEN Get(item.text, "") ELSE "")
             \o MessageTexts(Tail(events))

\* "".join of the text blocks of the assistant events: lines 134-140
RECURSIVE AssistantTexts(_)
AssistantTexts(events) ==
    IF events = <<>> THEN ""
    ELSE (IF Head(events).t = "assistant" THEN BlockTexts(Get(Head(events).blocks, <<>>))
          ELSE "")
         \o AssistantTexts(Tail(events))

\* The text of a batch AgentResult: the agent_message texts; when there are
\* none the assistant texts; when there are none either, final.get("message", "").
BatchText(events, final) ==
    LET f == Get(final, Line("<none>")) IN
    IF MessageTexts(events) # "" THEN MessageTexts(events)
    ELSE IF AssistantTexts(events) # "" THEN AssistantTexts(events)
    ELSE Get(f.message, "")

\* CodexAgent._run_json(prompt, resume=True) on a subprocess that prints lines
\* and exits with rc, lines 113-152: out is what the call did, cached the
\* _thread_id it leaves.
CodexAgentBatch(lines, rc, cached) ==
    LET acc    == BatchEvents(lines, [exc |-> "", events |-> <<>>])
        thread == FirstOf(acc.events, {"thread.started"})
        final  == LastOf(acc.events, TerminalTypes)
        th     == Get(thread, Line("<none>"))
        f      == Get(final, Line("<none>"))
        c2     == IF ~Truthy(cached) /\ Truthy(Get(th.sid, "")) THEN th.sid[1] ELSE cached
    IN  IF rc # 0 THEN [cached |-> cached, out |-> StreamOut(TRUE, "codex exec failed", <<>>, <<>>)]
        ELSE IF acc.exc # "" THEN [cached |-> cached, out |-> StreamOut(TRUE, acc.exc, <<>>, <<>>)]
        ELSE IF HasNonDict(acc.events)
             THEN [cached |-> cached, out |-> StreamOut(TRUE, "AttributeError", <<>>, <<>>)]
        ELSE [cached |-> c2,
              out |-> StreamOut(FALSE, "", <<>>,
                         <<[text |-> BatchText(acc.events, final),
                            duration_ms |-> Get(f.dur, 0),
                            thread_id |-> Get(th.sid, OrEmpty(c2)),
                            is_error |-> CodexIsError(final)]>>)]

\* The session files the streaming runs start from: an identifier, or nothing
\* but a newline.
StreamInit ==
    /\ client \in {"ClaudeAgent", "CodexAgent"}
    /\ sessionFile \in {"s0\n", "\n"} /\ cachedId = None
    /\ launches = <<>> /\ exits = <<>> /\ minted = 0 /\ oldIds = {} /\ lastCall = NoCall
    /\ sInput \in StreamInputs /\ sDone = "none" /\ sPos = 0 /\ sOut = NoOut
    /\ parser = NoParser

\* The streaming runs whose loop is waiting for the next line of the subprocess.
Reading == {"claude-reading", "codex-reading"}

\* ClaudeAgent.run(prompt, on_text), up to the first wait of the loop: stream
\* -> _build_command -> session_id, then Popen. A failed resolution ends run.
ClaudeStreamRun ==
    /\ client = "ClaudeAgent" /\ sDone = "none"
    /\ \E o1 \in CliOutputs(<<>>, minted) :
         LET res == ResolveAlways(cachedId, sessionFile, o1, 0) IN
         /\ cachedId' = res.cached /\ sessionFile' = res.file
         /\ minted' = minted + (IF res.launches # <<>> THEN o1.mints ELSE 0)
         /\ exits' = ExitsOf(res.launches, o1.rc)
         /\ lastCall' = Call("stream", res.raised, Unresolved)
         /\ IF res.raised
            THEN /\ launches' = res.launches
                 /\ sOut' = StreamOut(TRUE, res.error, <<>>, <<>>)
                 /\ sDone' = "claude"
            ELSE /\ launches' = Append(res.launches, Launch("run", <<res.id>>, res.file))
                 /\ sOut' = NoOut
                 /\ sDone' = "claude-reading"
    /\ UNCHANGED <<client, oldIds, sInput, sPos, parser, svcVars, sessVars>>

\* One turn of "for event in self.stream(prompt)": the next line arrives, is
\* parsed, and on_text gets its text blocks. An exception leaves run.
ClaudeStreamLine ==
    /\ sDone = "claude-reading" /\ sPos < Len(sInput.lines)
    /\ LET acc == ClaudeStreamLoop(<<sInput.lines[sPos + 1]>>,
                     [exc |-> "", chunks |-> sOut.chunks, final |-> <<>>])
       IN  IF acc.exc # ""
           THEN /\ sOut' = StreamOut(TRUE, acc.exc, acc.chunks, <<>>)
                /\ sDone' = "claude"
                /\ exits' = Append(exits, sInput.rc)
                /\ lastCall' = [lastCall EXCEPT !.raised = TRUE]
           ELSE /\ sOut' = [sOut EXCEPT !.chunks = acc.chunks]
                /\ UNCHANGED <<sDone, exits, lastCall>>
    /\ sPos' = sPos + 1
    /\ UNCHANGED <<client, sessionFile, cachedId, launches, minted, oldIds, sInput, parser,
                   svcVars, sessVars>>

\* The stream is at its end: proc.wait(), the exit code, then the AgentResult
\* from the last result event of the lines read.
ClaudeStreamEnd ==
    /\ sDone = "claude-reading" /\ sPos = Len(sInput.lines)
    /\ sOut' = ClaudeAgentRun(sInput.lines, sInput.rc, cachedId)
    /\ sDone' = "claude"
    /\ exits' = Append(exits, sInput.rc)
    /\ lastCall' = [lastCall EXCEPT !.raised = sOut'.raised]
    /\ UNCHANGED <<client, sessionFile, cachedId, launches, minted, oldIds, sInput, sPos,
                   parser, svcVars, sessVars>>

\* run of CodexAgent up to the launch of the subprocess: `_ = self.thread_id`
\* first, which with nothing cached and no session file makes the
\* initialization call (output o1) and writes the file; _exec_cmd then reads
\* the property once more. The record is what the two reads did, launch the
\* subprocess of the run itself.
CodexRunStep(o1) ==
    LET res  == ResolveCond(client, cachedId, sessionFile, o1)
        res2 == IF res.raised THEN res ELSE ResolveCond(client, res.cached, res.file, o1)
    IN  [raised |-> res.raised, error |-> res.error, file |-> res2.file,
         cached |-> IF res.raised THEN res.cached ELSE res2.cached,
         mints |-> IF res.launches # <<>> THEN o1.mints ELSE 0,
         launches |-> res.launches, exits |-> ExitsOf(res.launches, o1.rc),
         launch |-> Launch("run", <<res2.id>>, res2.file)]

\* CodexAgent.run(prompt, on_text), up to the first wait of the loop.
CodexStreamRun ==
    /\ client = "CodexAgent" /\ sDone = "none"
    /\ \E o1 \in CliOutputs(<<>>, minted) :
         LET r == CodexRunStep(o1) IN
         /\ sessionFile' = r.file /\ cachedId' = r.cached /\ minted' = minted + r.mints
         /\ exits' = r.exits
         /\ lastCall' = Call("stream", r.raised, Unresolved)
         /\ IF r.raised
            THEN /\ launches' = r.launches
                 /\ sOut' = StreamOut(TRUE, r.error, <<>>, <<>>)
                 /\ sDone' = "codex"
            ELSE /\ launches' = Append(r.launches, r.launch)
                 /\ sOut' = NoOut
                 /\ sDone' = "codex-reading"
    /\ UNCHANGED <<client, oldIds, sInput, sPos, parser, svcVars, sessVars>>

\* One turn of "for event in self.stream(prompt)": the next line arrives, is
\* parsed, a thread.started event is adopted when nothing is cached, and
\* on_text gets the texts. An exception leaves run.
CodexStreamLine ==
    /\ sDone = "codex-reading" /\ sPos < Len(sInput.lines)
    /\ LET acc == CodexStreamLoop(<<sInput.lines[sPos + 1]>>,
                     [exc |-> "", chunks |-> sOut.chunks, final |-> <<>>,
                      thread |-> <<>>, cached |-> cachedId])
       IN  /\ cachedId' = acc.cached
           /\ IF acc.exc # ""
              THEN /\ sOut' = StreamOut(TRUE, acc.exc, acc.chunks, <<>>)
                   /\ sDone' = "codex"
                   /\ exits' = Append(exits, sInput.rc)
                   /\ lastCall' = [lastCall EXCEPT !.raised = TRUE]
              ELSE /\ sOut' = [sOut EXCEPT !.chunks = acc.chunks]
                   /\ UNCHANGED <<sDone, exits, lastCall>>
    /\ sPos' = sPos + 1
    /\ UNCHANGED <<client, sessionFile, launches, minted, oldIds, sInput, parser,
                   svcVars, sessVars>>

\* The stream is at its end: proc.wait(), the exit code, then the AgentResult
\* from the last thread.started and terminal events of the lines read.
CodexStreamEnd ==
    /\ sDone = "codex-reading" /\ sPos = Len(sInput.lines)
    /\ LET r == CodexAgentRun(sInput.lines, sInput.rc, cachedId) IN
       sOut' = r.out /\ cachedId' = r.cached
    /\ sDone' = "codex"
    /\ exits' = Append(exits, sInput.rc)
    /\ lastCall' = [lastCall EXCEPT !.raised = sOut'.raised]
    /\ UNCHANGED <<client, sessionFile, launches, minted, oldIds, sInput, sPos, parser,
                   svcVars, sessVars>>

\* CodexAgent.run(prompt) without on_text: thread_id, then
\* _run_json(prompt, resume=True), which returns when the subprocess has ended.
CodexBatchRun ==
    /\ client = "CodexAgent" /\ sDone = "none"
    /\ \E o1 \in CliOutputs(<<>>, minted) :
         LET r == CodexRunStep(o1)
             b == CodexAgentBatch(sInput.lines, sInput.rc, r.cached)
         IN  /\ sessionFile' = r.file /\ minted' = minted + r.mints
             /\ IF r.raised
                THEN /\ cachedId' = r.cached
                     /\ launches' = r.launches /\ exits' = r.exits
                     /\ sOut' = StreamOut(TRUE, r.error, <<>>, <<>>)
                ELSE /\ cachedId' = b.cached
                     /\ launches' = Append(r.launches, r.launch)
                     /\ exits' = Append(r.exits, sInput.rc)
                     /\ sOut' = b.out
    /\ sDone' = "codex-batch"
    /\ lastCall' = Call("run", sOut'.raised, Unresolved)
    /\ UNCHANGED <<client, oldIds, sInput, sPos, parser, svcVars, sessVars>>

InitStream == StreamInit /\ SvcIdle /\ SessIdle

NextStream ==
    \/ ClaudeStreamRun \/ ClaudeStreamLine \/ ClaudeStreamEnd
    \/ CodexStreamRun \/ CodexStreamLine \/ CodexStreamEnd
    \/ CodexBatchRun

SpecStream == InitStream /\ [][NextStream]_vars

---------------------------------------------------------------------------
\* The StreamParser of claude-headless and of codex-headless
\* (examples/streaming/stream-parser.py): parse_line and parse_stream
\* (specification SpecParser).

\* d.get(k, default) on a record whose slot k is <<>> (or is not there at all)
\* when the key is missing.
Key(d, k, default) == IF k \in DOMAIN d THEN Get(d[k], default) ELSE default

\* {"type":"init","session_id":id}
InitLine(id) == [Line("init") EXCEPT !.sid = <<id>>]
\* {"type":"thinking","thinking":s} and {"type":"tool_use","name":n} blocks
ThinkingBlock(s) == [bt |-> "thinking", text |-> <<>>, thinking |-> <<s>>]
NamedTool(n)     == [bt |-> "tool_use", text |-> <<>>, name |-> <<n>>]
\* {"type":"error","message":m} of the Codex stream
ErrorLine(m) == [Line("error") EXCEPT !.msg = <<m>>]
\* "usage":{"input_tokens":i,"output_tokens":o} added to a line
WithUsage(l, i, o) == [l EXCEPT !.usage = <<[input_tokens |-> <<i>>, output_tokens |-> <<o>>]>>]

\* The lines fed to the Claude parser and to the Codex parser.
ClaudeLines ==
    { Line("blank"), Line("bad"), Line("nondict"), Line("system"), InitLine("s1"),
      Line("assistant"), Assistant(<<>>), Assistant(<<TextBlock("")>>),
      Assistant(<<TextBlock("Hi")>>), Assistant(<<TextBlock("Hi"), TextBlock("yo")>>),
      Assistant(<<ToolBlock, TextBlock("yo")>>), Assistant(<<NoTextBlock, NamedTool("Read")>>),
      Assistant(<<ThinkingBlock("hm"), TextBlock("Hi")>>),
      Line("result"), WithUsage(ResultLine(FALSE, 1, 2, "Hi"), 3, 4),
      ResultLine(TRUE, 1, 2, "boom"), [Line("result") EXCEPT !.is_error = <<TRUE>>] }

CodexLines ==
    { Line("blank"), Line("bad"), Line("nondict"), Line("system"), ThreadStarted("t1"),
      Line("item.completed"), ItemCompleted("agent_message", "yo"),
      ItemCompleted("agent_message", ""), ItemCompleted("tool_call", ""),
      Line("turn.completed"), WithUsage(TurnCompleted(5), 3, 4),
      Line("turn.failed"), TurnFailed([message |-> <<"boom">>]),
      TurnFailed([message |-> <<>>]), ErrorLine("oops"), Line("error") }

\* Event(type, data, raw); raw is <<>> for the empty dict
Event(type, data, raw) == [type |-> type, data |-> data, raw |-> raw]

\* StreamStats() of the Claude parser and Stats() of the Codex parser
StreamStats ==
    [text_chunks |-> 0, tool_uses |-> 0, total_tokens |-> 0, cost_usd |-> 0,
     duration_ms |-> 0, session_id |-> "", is_error |-> FALSE]
Stats ==
    [text_chunks |-> 0, tool_uses |-> 0, total_tokens |-> 0, duration_ms |-> 0,
     thread_id |-> "", is_error |-> FALSE]

\* What one parse_line call did: the stats it leaves, the Event it returned
\* (<<>>: None), the callbacks it invoked, and the exception it raised if any.
Parsed(pstats, ret, cbs) == [exc |-> "", stats |-> pstats, ret |-> ret, calls |-> cbs]

\* if self.on_x: self.on_x(arg)
Hook(on, cb, arg) == IF on THEN <<[cb |-> cb, arg |-> arg]>> ELSE <<>>

\* usage.get("input_tokens", 0) + usage.get("output_tokens", 0)
Tokens(l) ==
    LET usage == Get(l.usage, [input_tokens |-> <<>>, output_tokens |-> <<>>])
    IN  Get(usage.input_tokens, 0) + Get(usage.output_tokens, 0)

\* Mutant of Skipped: the line is reported as an error event.
SkippedBug(pstats) == Parsed(pstats, <<Event("error", "ignored", <<>>)>>, <<>>)

\* return None
Skipped(pstats) == Parsed(pstats, <<>>, <<>>)

\* Mutant of ParseError: the line that is not JSON is dropped.
ParseErrorBug(pstats) == Parsed(pstats, <<>>, <<>>)

\* Claude parse_line, except json.JSONDecodeError
ParseError(pstats) == Parsed(pstats, <<Event("error", "JSON parse error", <<>>)>>, <<>>)

\* Claude parse_line, the loop over the content blocks of an assistant line:
\* the first block that produces an Event returns it.
RECURSIVE ClaudeParseBlocks(_, _, _, _)
ClaudeParseBlocks(blocks, l, pstats, on) ==
    IF blocks = <<>> THEN Skipped(pstats)
    ELSE LET block == Head(blocks) IN
         CASE block.bt = "text" ->
                LET text == Key(block, "text", "") IN
                IF text # ""
                THEN Parsed([pstats EXCEPT !.text_chunks = @ + 1],
                            <<Event("text", text, <<l>>)>>, Hook(on, "on_text", text))
                ELSE ClaudeParseBlocks(Tail(blocks), l, pstats, on)
           [] block.bt = "tool_use" ->
                LET tool_name == Key(block, "name", "unknown") IN
                Parsed([pstats EXCEPT !.tool_uses = @ + 1],
                       <<Event("tool_use", [name |-> tool_name], <<l>>)>>,
                       Hook(on, "on_tool_use", tool_name))
           [] block.bt = "tool_result" ->
                LET tool_name == Key(block, "name", "unknown") IN
                Parsed(pstats, <<Event("tool_result", [name |-> tool_name], <<l>>)>>,
                       Hook(on, "on_tool_result", tool_name))
           [] block.bt = "thinking" ->
                LET thinking == Key(block, "thinking", "") IN
                Parsed(pstats, <<Event("thinking", thinking, <<l>>)>>,
                       Hook(on /\ thinking # "", "on_thinking", thinking))
           [] OTHER -> ClaudeParseBlocks(Tail(blocks), l, pstats, on)

\* Mutant of ResultStats: the error flag of the result line is not stored.
ResultStatsBug(l, pstats) ==
    [pstats EXCEPT !.cost_usd = Get(l.cost, 0), !.duration_ms = Get(l.dur, 0),
                  !.total_tokens = Tokens(l)]

\* Claude parse_line on a result line: the stats it sets
ResultStats(l, pstats) ==
    [pstats EXCEPT !.cost_usd = Get(l.cost, 0), !.duration_ms = Get(l.dur, 0),
                  !.is_error = Get(l.is_error, FALSE), !.total_tokens = Tokens(l)]

\* StreamParser.parse_line of claude-headless; on: the callbacks are set
ClaudeParseLine(l, pstats, on) ==
    CASE l.t = "blank"     -> Skipped(pstats)
      [] l.t = "bad"       -> ParseError(pstats)
      [] l.t = "nondict"   -> [Skipped(pstats) EXCEPT !.exc = "AttributeError"]
      [] l.t = "init"      ->
            Parsed([pstats EXCEPT !.session_id = Get(l.sid, "")], <<Event("init", l, <<l>>)>>,
                   <<>>)
      [] l.t = "assistant" -> ClaudeParseBlocks(Get(l.blocks, <<>>), l, pstats, on)
      [] l.t = "result"    ->
            LET st == ResultStats(l, pstats) IN
            Parsed(st, <<Event("result", l, <<l>>)>>,
                   Hook(on /\ st.is_error, "on_error", Get(l.msg, "Unknown error")))
      [] OTHER             -> Skipped(pstats)

\* x or default, for a string x that may be missing
OrDefault(x, default) == IF Get(x, "") = "" THEN default ELSE x[1]

\* StreamParser.parse_line of codex-headless
CodexParseLine(l, pstats, on) ==
    CASE l.t = "blank"   -> Skipped(pstats)
      [] l.t = "bad"     -> Skipped(pstats)
      [] l.t = "nondict" -> [Skipped(pstats) EXCEPT !.exc = "AttributeError"]
      [] l.t = "thread.started" ->
            Parsed([pstats EXCEPT !.thread_id = Get(l.sid, "")],
                   <<Event("thread.started", l, <<l>>)>>, <<>>)
      [] l.t = "item.completed" ->
            LET item == Get(l.item, [it |-> "", text |-> <<>>])
                text == Get(item.text, "")
                ev   == <<Event("item.completed", l, <<l>>)>>
            IN  IF item.it = "agent_message"
                THEN IF text # ""
                     THEN Parsed([pstats EXCEPT !.text_chunks = @ + 1], ev,
                                 Hook(on, "on_text", text))
                     ELSE Parsed(pstats, ev, <<>>)
                ELSE IF item.it \in {"tool_call", "command_execution"}
                THEN Parsed([pstats EXCEPT !.tool_uses = @ + 1], ev,
                            Hook(on, "on_tool", "tool"))
                ELSE Parsed(pstats, ev, <<>>)
      [] l.t \in {"turn.completed", "turn.failed"} ->
            LET st == [pstats EXCEPT !.duration_ms = Get(l.dur, 0),
                                    !.total_tokens = Tokens(l),
                                    !.is_error = (l.t = "turn.failed")]
                error == Get(l.error, [message |-> <<>>])
            IN  Parsed(st, <<Event(l.t, l, <<l>>)>>,
                       Hook(on /\ st.is_error, "on_error",
                            OrDefault(error.message, "Unknown error")))
      [] l.t = "error" ->
            Parsed(pstats, <<Event("error", l, <<l>>)>>,
                   Hook(on, "on_error", OrDefault(l.msg, "Error")))
      [] OTHER -> Skipped(pstats)

\* parse_line of the parser of kind k
ParseLine(k, l, pstats, on) ==
    IF k = "codex" THEN CodexParseLine(l, pstats, on) ELSE ClaudeParseLine(l, pstats, on)

\* A parser just constructed: kind, whether the callbacks were set, the stats,
\* and history: the lines read, the callbacks invoked, the events yielded,
\* what the last parse_line call did (with the stats and the number of events
\* yielded before it), and the exception that ended the stream.
NewParser(k, on) ==
    [kind |-> k, on |-> on, stats |-> IF k = "codex" THEN Stats ELSE StreamStats,
     fed |-> <<>>, calls |-> <<>>, events |-> <<>>, last |-> <<>>, exc |-> ""]

ParserInit ==
    /\ client = "StreamParser" /\ sessionFile = Absent /\ cachedId = None
    /\ ClientIdle
    /\ sInput = [lines |-> <<>>, rc |-> 0] /\ sDone = "none" /\ sPos = 0 /\ sOut = NoOut
    /\ parser \in {NewParser(k, on) : k \in {"claude", "codex"}, on \in BOOLEAN}

\* parse_stream: one turn of "for line in stream", the stream holding l next
ParserFeed(l) ==
    /\ client = "StreamParser" /\ parser.exc = "" /\ Len(parser.fed) < MaxEvents
    /\ LET r == ParseLine(parser.kind, l, parser.stats, parser.on) IN
       parser' = [parser EXCEPT !.stats = r.stats, !.fed = Append(@, l),
                                !.calls = @ \o r.calls,
                                !.events = IF r.exc = "" THEN @ \o r.ret ELSE @,
                                !.last = <<[line |-> l, before |-> parser.stats, r |-> r,
                                            yielded |-> Len(parser.events)]>>,
                                !.exc = r.exc]
    /\ UNCHANGED <<sInput, sDone, sPos, sOut, svcVars, clientVars, sessVars>>

InitParser == ParserInit /\ SvcIdle /\ SessIdle

NextParser ==
    \/ \E l \in ClaudeLines : parser.kind = "claude" /\ ParserFeed(l)
    \/ \E l \in CodexLines : parser.kind = "codex" /\ ParserFeed(l)

SpecParser == InitParser /\ [][NextParser]_vars

---------------------------------------------------------------------------
\* Sessions of the StatefulAgent and their JSON files.

\* Operations made on one StatefulAgent.
MaxSessOps == 3
\* The total_cost_usd values one call of the CLI reports (integers here).
Costs == {1, 2}

\* datetime.now().isoformat() of the n-th operation
TimeNames == <<"t1", "t2", "t3", "t4", "t5", "t6">>
Now(n) == TimeNames[n + 1]

\* JSON values, as json.dump writes and json.load reads them.
JNull     == [j |-> "null"]
JStr(v)   == [j |-> "str", v |-> v]
JNum(v)   == [j |-> "num", v |-> v]
JArr(v)   == [j |-> "arr", v |-> v]
JObj(v)   == [j |-> "obj", v |-> v]

\* An Optional[str] written to JSON and read back.
JOpt(v)  == IF v = None THEN JNull ELSE JStr(v)
PyOpt(x) == IF x.j = "null" THEN None ELSE x.v

\* d[key] and d.get(key, default) on the key/value pairs of a JSON object
Field(pairs, key) == (CHOOSE i \in 1..Len(pairs) : pairs[i][1] = key)
Lookup(pairs, key, default) ==
    IF \E i \in 1..Len(pairs) : pairs[i][1] = key
    THEN pairs[Field(pairs, key)][2] ELSE default

\* Turn and Session of claude-headless/examples/multi-turn
Turn(timestamp, prompt, response, cost_usd, duration_ms) ==
    [timestamp |-> timestamp, prompt |-> prompt, response |-> response,
     cost_usd |-> cost_usd, duration_ms |-> duration_ms]

Session(session_id, name, created_at, parent_session_id) ==
    [session_id |-> session_id, name |-> name, created_at |-> created_at, turns |-> <<>>,
     total_cost_usd |-> 0, parent_session_id |-> parent_session_id]

\* Mutant of AddTurn: the turn's cost is not added to the total.
AddTurnBug(session, turn) == [session EXCEPT !.turns = Append(@, turn)]

\* Session.add_turn
AddTurn(session, turn) ==
    [session EXCEPT !.turns = Append(@, turn), !.total_cost_usd = @ + turn.cost_usd]

\* asdict of a Turn, and Turn(**t)
TurnToDict(t) ==
    JObj(<< <<"timestamp", JStr(t.timestamp)>>, <<"prompt", JStr(t.prompt)>>,
            <<"response", JStr(t.response)>>, <<"cost_usd", JNum(t.cost_usd)>>,
            <<"duration_ms", JNum(t.duration_ms)>> >>)
TurnFromDict(x) ==
    Turn(Lookup(x.v, "timestamp", JNull).v, Lookup(x.v, "prompt", JNull).v,
         Lookup(x.v, "response", JNull).v, Lookup(x.v, "cost_usd", JNull).v,
         Lookup(x.v, "duration_ms", JNull).v)

\* Session.to_dict
ToDict(s) ==
    JObj(<< <<"session_id", JStr(s.session_id)>>, <<"name", JStr(s.name)>>,
            <<"created_at", JStr(s.created_at)>>,
            <<"turns", JArr([i \in 1..Len(s.turns) |-> TurnToDict(s.turns[i])])>>,
            <<"total_cost_usd", JNum(s.total_cost_usd)>>,
            <<"parent_session_id", JOpt(s.parent_session_id)>> >>)

\* Mutant of FromDict: the parent reference is not read back.
FromDictBug(x) ==
    LET tl == Lookup(x.v, "turns", JArr(<<>>)).v IN
    [session_id |-> Lookup(x.v, "session_id", JNull).v,
     name |-> Lookup(x.v, "name", JNull).v,
     created_at |-> Lookup(x.v, "created_at", JNull).v,
     turns |-> [i \in 1..Len(tl) |-> TurnFromDict(tl[i])],
     total_cost_usd |-> Lookup(x.v, "total_cost_usd", JNum(0)).v,
     parent_session_id |-> None]

\* Session.from_dict: turns = data.pop("turns", []), then cls(**data, turns=turns)
FromDict(x) ==
    LET tl == Lookup(x.v, "turns", JArr(<<>>)).v IN
    [session_id |-> Lookup(x.v, "session_id", JNull).v,
     name |-> Lookup(x.v, "name", JNull).v,
     created_at |-> Lookup(x.v, "created_at", JNull).v,
     turns |-> [i \in 1..Len(tl) |-> TurnFromDict(tl[i])],
     total_cost_usd |-> Lookup(x.v, "total_cost_usd", JNum(0)).v,
     parent_session_id |-> PyOpt(Lookup(x.v, "parent_session_id", JNull))]

\* Turn and Session of codex-headless/examples/multi-turn: no cost, no parent
CodexTurn(timestamp, prompt, response, duration_ms) ==
    [timestamp |-> timestamp, prompt |-> prompt, response |-> response,
     duration_ms |-> duration_ms]
CodexSession(session_id, name, created_at) ==
    [session_id |-> session_id, name |-> name, created_at |-> created_at, turns |-> <<>>]
CodexAddTurn(session, turn) == [session EXCEPT !.turns = Append(@, turn)]

CodexTurnToDict(t) ==
    JObj(<< <<"timestamp", JStr(t.timestamp)>>, <<"prompt", JStr(t.prompt)>>,
            <<"response", JStr(t.response)>>, <<"duration_ms", JNum(t.duration_ms)>> >>)
CodexTurnFromDict(x) ==
    CodexTurn(Lookup(x.v, "timestamp", JNull).v, Lookup(x.v, "prompt", JNull).v,
              Lookup(x.v, "response", JNull).v, Lookup(x.v, "duration_ms", JNum(0)).v)
CodexToDict(s) ==
    JObj(<< <<"session_id", JStr(s.session_id)>>, <<"name", JStr(s.name)>>,
            <<"created_at", JStr(s.created_at)>>,
            <<"turns", JArr([i \in 1..Len(s.turns) |-> CodexTurnToDict(s.turns[i])])>> >>)
CodexFromDict(x) ==
    LET tl == Lookup(x.v, "turns", JArr(<<>>)).v IN
    [session_id |-> Lookup(x.v, "session_id", JNull).v,
     name |-> Lookup(x.v, "name", JNull).v,
     created_at |-> Lookup(x.v, "created_at", JNull).v,
     turns |-> [i \in 1..Len(tl) |-> CodexTurnFromDict(tl[i])]]

\* to_dict / from_dict of the agent of kind k ("claude" or "codex")
ToDictOf(k, s)   == IF k = "codex" THEN CodexToDict(s) ELSE ToDict(s)
FromDictOf(k, x) == IF k = "codex" THEN CodexFromDict(x) ELSE FromDict(x)

\* Mutant of SaveSession: a file that exists is not overwritten.
SaveSessionBug(st, k, s) ==
    IF st[s.name] = NoDoc THEN [st EXCEPT ![s.name] = ToDictOf(k, s)] ELSE st

\* StatefulAgent._save_session: the whole file is rewritten
SaveSession(st, k, s) == [st EXCEPT ![s.name] = ToDictOf(k, s)]

\* Mutant of LoadSession: the turns of the file are not read back.
LoadSessionBug(st, k, name) ==
    IF st[name] = NoDoc THEN <<>>
    ELSE <<[FromDictOf(k, st[name]) EXCEPT !.turns = <<>>]>>

\* StatefulAgent._load_session: <<>> is None
LoadSession(st, k, name) ==
    IF st[name] = NoDoc THEN <<>> ELSE <<FromDictOf(k, st[name])>>

\* The steps of _save_session and _load_session as another process sees them.
\* A file that json.load rejects: n bytes that are no JSON document.
Invalid(n) == [j |-> "invalid", size |-> n]

\* The number of decimal digits of a natural number
RECURSIVE Digits(_)
Digits(n) == IF n < 10 THEN 1 ELSE 1 + Digits(n \div 10)

\* The number of characters json.dump(x, f, indent=2) writes for x at nesting
\* depth d (strings without characters that JSON escapes): an empty list or
\* object is two characters, every other one puts each element on a line of
\* its own, indented by two spaces per level.
RECURSIVE Written(_, _)
Written(x, d) ==
    LET Item(i) == IF x.j = "obj"
                   THEN Len(x.v[i][1]) + 4 + Written(x.v[i][2], d + 1)
                   ELSE Written(x.v[i], d + 1)
        Sum[i \in 0..Len(x.v)] ==
            IF i = 0 THEN 0 ELSE Sum[i - 1] + 1 + 2 * (d + 1) + Item(i)
    IN  CASE x.j = "null" -> 4
          [] x.j = "str"  -> Len(x.v) + 2
          [] x.j = "num"  -> Digits(x.v)
          [] OTHER -> IF x.v = <<>> THEN 2
                      ELSE Sum[Len(x.v)] + (Len(x.v) - 1) + 3 + 2 * d

\* The size of a file: total_cost_usd is a float (0.0 plus the costs added),
\* written with a fraction digit.
FileSize(x) ==
    IF x = NoDoc THEN 0
    ELSE IF x.j = "invalid" THEN x.size
    ELSE Written(x, 0) + (IF Lookup(x.v, "total_cost_usd", JNull) = JNull THEN 0 ELSE 2)

\* _load_session, line 100: json.load raises JSONDecodeError on a file that
\* exists and holds no JSON document
LoadRaises(st, name) == st[name].j = "invalid"

\* _save_session, line 92: open(path, "w") leaves the file empty
OpenW(st, name) == [st EXCEPT ![name] = Invalid(0)]

\* _save_session, line 93, on the file opened at line 92: json.dump and the
\* close write the document at the start of the file.  The bytes another
\* process wrote past its end in the meantime stay behind it.
Dump(st, k, s) ==
    IF FileSize(st[s.name]) <= FileSize(ToDictOf(k, s))
    THEN SaveSession(st, k, s)
    ELSE [st EXCEPT ![s.name] = Invalid(FileSize(st[s.name]))]

---------------------------------------------------------------------------
\* The Claude StatefulAgent: create_session, load_or_create_session, run,
\* fork_session on one agent object (specification SpecSession).

\* What one launch of the CLI prints, n identifiers having been created: exit
\* code, whether stdout parses, and the session_id, result, total_cost_usd and
\* duration_ms keys of the JSON object (<<>>: key missing).
SessOutputs(n) ==
    {[rc |-> 0, json |-> FALSE, sid |-> <<>>, text |-> <<>>, cost |-> <<>>, dur |-> <<>>,
      mints |-> 0],
     [rc |-> 0, json |-> TRUE, sid |-> <<>>, text |-> <<>>, cost |-> <<>>, dur |-> <<>>,
      mints |-> 0],
     [rc |-> 1, json |-> TRUE, sid |-> <<"s9">>, text |-> <<"part">>, cost |-> <<1>>,
      dur |-> <<5>>, mints |-> 0]}
    \cup (IF n < MaxMint
          THEN {[rc |-> 0, json |-> TRUE, sid |-> <<FreshId(n)>>, text |-> <<"r">>,
                 cost |-> <<c>>, dur |-> <<5>>, mints |-> 1] : c \in Costs}
          ELSE {})

\* Mutant of ExitFails: the exit code is ignored.
ExitFailsBug(rc) == FALSE

\* if result.returncode != 0: raise RuntimeError
ExitFails(rc) == rc # 0

\* The agent and its storage: a is [heap, current, store].  An operation yields
\* the agent after it, whether it raised, and the launches it made.
SessDone(a, ls, xs, mints) ==
    [raised |-> FALSE, error |-> "", a |-> a, launches |-> ls, exits |-> xs, mints |-> mints]
SessRaised(err, a, ls, xs) ==
    [raised |-> TRUE, error |-> err, a |-> a, launches |-> ls, exits |-> xs, mints |-> 0]

\* Mutant of Adopt: the new Session takes the place of the current object.
AdoptBug(a, session) ==
    IF a.current = 0
    THEN [heap |-> Append(a.heap, session), current |-> Len(a.heap) + 1,
          store |-> SaveSession(a.store, "claude", session)]
    ELSE [heap |-> [a.heap EXCEPT ![a.current] = session], current |-> a.current,
          store |-> SaveSession(a.store, "claude", session)]

\* A new Session object becomes the current one and is saved.
Adopt(a, session) ==
    [heap |-> Append(a.heap, session), current |-> Len(a.heap) + 1,
     store |-> SaveSession(a.store, "claude", session)]

\* StatefulAgent.create_session(name, initial_prompt) with CLI output o
CreateSession(name, initial_prompt, o, a, now) ==
    LET l == Launch("init", <<>>, Absent) IN
    IF ExitFails(o.rc) THEN SessRaised("Failed to create session", a, <<l>>, <<o.rc>>)
    ELSE IF ~o.json THEN SessRaised("JSONDecodeError", a, <<l>>, <<o.rc>>)
    ELSE IF o.sid = <<>> THEN SessRaised("KeyError", a, <<l>>, <<o.rc>>)
    ELSE LET turn == Turn(now, initial_prompt, Get(o.text, ""), Get(o.cost, 0),
                          Get(o.dur, 0))
             session == AddTurn(Session(o.sid[1], name, now, None), turn)
         IN  SessDone(Adopt(a, session), <<l>>, <<o.rc>>, o.mints)

\* StatefulAgent.load_or_create_session(name)
LoadOrCreateSession(name, o, a, now) ==
    LET session == LoadSession(a.store, "claude", name) IN
    IF session # <<>>
    THEN SessDone([a EXCEPT !.heap = Append(@, session[1]), !.current = Len(a.heap) + 1],
                  <<>>, <<>>, 0)
    ELSE CreateSession(name, "Initialize session", o, a, now)

\* Mutant of RunRaises: the resumed call's failure goes unnoticed.
RunRaisesBug(o) == FALSE

\* run, lines 190-193: RuntimeError when the resumed subprocess exits non-zero,
\* else the exception json.loads raises on output that is not JSON
RunRaises(o) == ExitFails(o.rc) \/ ~o.json

\* StatefulAgent.run(prompt, session_name): o1 is the output of the call that
\* creates the session when there is none, o2 the output of the resumed call.
SessionRun(prompt, name, o1, o2, a, now) ==
    LET pre == IF a.current = 0 \/ a.heap[a.current].name # name
               THEN LoadOrCreateSession(name, o1, a, now)
               ELSE SessDone(a, <<>>, <<>>, 0)
    IN  IF pre.raised THEN pre
        ELSE LET session == pre.a.heap[pre.a.current]
                 l  == Launch("run", <<session.session_id>>, Absent)
                 ls == Append(pre.launches, l)
                 xs == Append(pre.exits, o2.rc)
             IN  IF RunRaises(o2)
                 THEN [SessRaised(IF ExitFails(o2.rc) THEN "Claude failed"
                                  ELSE "JSONDecodeError", pre.a, ls, xs)
                          EXCEPT !.mints = pre.mints]
                 ELSE LET turn == Turn(now, prompt, Get(o2.text, ""), Get(o2.cost, 0),
                                       Get(o2.dur, 0))
                          s2   == AddTurn(session, turn)
                      IN  SessDone([heap |-> [pre.a.heap EXCEPT ![pre.a.current] = s2],
                                    current |-> pre.a.current,
                                    store |-> SaveSession(pre.a.store, "claude", s2)],
                                   ls, xs, pre.mints + o2.mints)

\* StatefulAgent.fork_session(new_name, prompt)
ForkSession(new_name, prompt, o, a, now) ==
    IF a.current = 0 THEN SessRaised("No current session to fork", a, <<>>, <<>>)
    ELSE LET parent == a.heap[a.current]
             l == Launch("fork", <<parent.session_id>>, Absent)
         IN  IF ExitFails(o.rc) THEN SessRaised("Failed to fork", a, <<l>>, <<o.rc>>)
             ELSE IF ~o.json THEN SessRaised("JSONDecodeError", a, <<l>>, <<o.rc>>)
             ELSE IF o.sid = <<>> THEN SessRaised("KeyError", a, <<l>>, <<o.rc>>)
             ELSE LET turn == Turn(now, "[FORK from " \o parent.name \o "] " \o prompt,
                                   Get(o.text, ""), Get(o.cost, 0), Get(o.dur, 0))
                      forked == AddTurn(Session(o.sid[1], new_name, now, parent.session_id),
                                        turn)
                  IN  SessDone(Adopt(a, forked), <<l>>, <<o.rc>>, o.mints)

\* What one launch of codex exec --json prints, n thread ids having been
\* created: exit code, stderr and the lines of stdout.
CodexSessOutputs(n) ==
    {[rc |-> 1, stderr |-> "E1", mints |-> 0,
      lines |-> <<ThreadStarted("s9"), ItemCompleted("agent_message", "part")>>],
     [rc |-> 0, stderr |-> "", mints |-> 0, lines |-> <<Line("bad")>>],
     [rc |-> 0, stderr |-> "", mints |-> 0, lines |-> <<Line("nondict"), TurnCompleted(5)>>],
     [rc |-> 0, stderr |-> "", mints |-> 0,
      lines |-> <<Line("blank"), Assistant(<<TextBlock("f")>>), TurnCompleted(5),
                  TurnFailed("bad")>>]}
    \cup (IF n < MaxMint
          THEN {[rc |-> 0, stderr |-> "", mints |-> 1,
                 lines |-> <<ThreadStarted(FreshId(n)), ItemCompleted("agent_message", "r"),
                             TurnCompleted(5)>>]}
          ELSE {})

\* next((e.get("thread_id") for e in events if e.get("type") == "thread.started"), ""):
\* the events are examined up to the first thread.started, and e.get raises on
\* one that is no object.
RECURSIVE FirstThread(_)
FirstThread(events) ==
    IF events = <<>> THEN [exc |-> "", id |-> ""]
    ELSE IF Head(events).t = "nondict" THEN [exc |-> "AttributeError", id |-> ""]
    ELSE IF Head(events).t = "thread.started"
         THEN [exc |-> "", id |-> Get(Head(events).sid, None)]
    ELSE FirstThread(Tail(events))

\* Codex StatefulAgent.create_session(name, initial_prompt) with output o: the
\* Session is saved with no turn.
CodexCreateSession(name, initial_prompt, o, a, now) ==
    LET l   == Launch("init", <<>>, Absent)
        acc == BatchEvents(o.lines, [exc |-> "", events |-> <<>>])
        th  == FirstThread(acc.events)
    IN  IF ExitFails(o.rc) THEN SessRaised(o.stderr, a, <<l>>, <<o.rc>>)
        ELSE IF acc.exc # "" THEN SessRaised(acc.exc, a, <<l>>, <<o.rc>>)
        ELSE IF th.exc # "" THEN SessRaised(th.exc, a, <<l>>, <<o.rc>>)
        ELSE LET session == CodexSession(th.id, name, now) IN
             SessDone([heap |-> Append(a.heap, session), current |-> Len(a.heap) + 1,
                       store |-> SaveSession(a.store, "codex", session)],
                      <<l>>, <<o.rc>>, o.mints)

\* Codex StatefulAgent.load_or_create_session(name)
CodexLoadOrCreateSession(name, o, a, now) ==
    LET session == LoadSession(a.store, "codex", name) IN
    IF session # <<>>
    THEN SessDone([a EXCEPT !.heap = Append(@, session[1]), !.current = Len(a.heap) + 1],
                  <<>>, <<>>, 0)
    ELSE CodexCreateSession(name, "Initialize session", o, a, now)

\* The response of a turn: the agent_message texts, else the assistant texts
CodexResponse(events) ==
    IF MessageTexts(events) # "" THEN MessageTexts(events) ELSE AssistantTexts(events)

\* The duration_ms of the first terminal event (None when it has no such
\* key), 0 when there is no terminal event
CodexDuration(events) ==
    LET f == FirstOf(events, TerminalTypes) IN
    IF f = <<>> THEN 0 ELSE Get(f[1].dur, None)

\* Codex StatefulAgent.run(prompt, session_name): o1 is the output of the call
\* that creates the session when there is none, o2 the output of the resumed
\* call.
CodexSessionRun(prompt, name, o1, o2, a, now) ==
    LET pre == IF a.current = 0 \/ a.heap[a.current].name # name
               THEN CodexLoadOrCreateSession(name, o1, a, now)
               ELSE SessDone(a, <<>>, <<>>, 0)
    IN  IF pre.raised THEN pre
        ELSE LET session == pre.a.heap[pre.a.current]
                 l   == Launch("run", <<session.session_id>>, Absent)
                 ls  == Append(pre.launches, l)
                 xs  == Append(pre.exits, o2.rc)
                 acc == BatchEvents(o2.lines, [exc |-> "", events |-> <<>>])
                 err == IF ExitFails(o2.rc) THEN o2.stderr
                        ELSE IF acc.exc # "" THEN acc.exc
                        ELSE IF HasNonDict(acc.events) THEN "AttributeError"
                        ELSE ""
             IN  IF err # "" \/ ExitFails(o2.rc)
                 THEN [SessRaised(err, pre.a, ls, xs) EXCEPT !.mints = pre.mints]
                 ELSE LET turn == CodexTurn(now, prompt, CodexResponse(acc.events),
                                            CodexDuration(acc.events))
                          s2   == CodexAddTurn(session, turn)
                      IN  SessDone([heap |-> [pre.a.heap EXCEPT ![pre.a.current] = s2],
                                    current |-> pre.a.current,
                                    store |-> SaveSession(pre.a.store, "codex", s2)],
                                   ls, xs, pre.mints + o2.mints)

Agent == [heap |-> heap, current |-> current, store |-> store]

\* The operation op with argument name ended as r.
SessApply(op, name, r) ==
    /\ heap' = r.a.heap /\ current' = r.a.current /\ store' = r.a.store
    /\ launches' = r.launches /\ exits' = r.exits /\ minted' = minted + r.mints
    /\ snap' = [op |-> op, name |-> name, heap |-> heap, current |-> current,
                store |-> store]
    /\ lastCall' = Call(op, r.raised, FALSE)
    /\ UNCHANGED <<client, sessionFile, cachedId, oldIds, procs, svcVars, streamVars>>

SessCreate(name) ==
    /\ client = "StatefulAgent" /\ lastCall.n < MaxSessOps
    /\ \E o \in SessOutputs(minted) :
         SessApply("create", name, CreateSession(name, "Initialize session", o, Agent,
                                                 Now(lastCall.n)))

\* main, --fork: agent.load_or_create_session(args.session)
SessLoadOrCreate(name) ==
    /\ client = "StatefulAgent" /\ lastCall.n < MaxSessOps
    /\ \E o \in SessOutputs(minted) :
         SessApply("load", name, LoadOrCreateSession(name, o, Agent, Now(lastCall.n)))

SessRun(name) ==
    /\ client = "StatefulAgent" /\ lastCall.n < MaxSessOps
    /\ \E o1 \in SessOutputs(minted) :
         \E o2 \in SessOutputs(minted + o1.mints) :
            SessApply("run", name, SessionRun("p", name, o1, o2, Agent, Now(lastCall.n)))

SessFork(new_name) ==
    /\ client = "StatefulAgent" /\ lastCall.n < MaxSessOps
    /\ \E o \in SessOutputs(minted) :
         SessApply("fork", new_name, ForkSession(new_name, "p", o, Agent, Now(lastCall.n)))

\* The Codex StatefulAgent: create_session, load_or_create_session and run.
CodexSessCreate(name) ==
    /\ client = "CodexStatefulAgent" /\ lastCall.n < MaxSessOps
    /\ \E o \in CodexSessOutputs(minted) :
         SessApply("create", name, CodexCreateSession(name, "Initialize session", o, Agent,
                                                      Now(lastCall.n)))

CodexSessLoadOrCreate(name) ==
    /\ client = "CodexStatefulAgent" /\ lastCall.n < MaxSessOps
    /\ \E o \in CodexSessOutputs(minted) :
         SessApply("load", name, CodexLoadOrCreateSession(name, o, Agent, Now(lastCall.n)))

CodexSessRun(name) ==
    /\ client = "CodexStatefulAgent" /\ lastCall.n < MaxSessOps
    /\ \E o1 \in CodexSessOutputs(minted) :
         \E o2 \in CodexSessOutputs(minted + o1.mints) :
            SessApply("run", name,
                      CodexSessionRun("p", name, o1, o2, Agent, Now(lastCall.n)))

\* The process ends; a new one constructs a StatefulAgent on the same directory.
SessRestart ==
    /\ client \in {"StatefulAgent", "CodexStatefulAgent"}
    /\ lastCall.n < MaxSessOps /\ heap # <<>>
    /\ heap' = <<>> /\ current' = 0 /\ launches' = <<>> /\ exits' = <<>>
    /\ snap' = [op |-> "restart", name |-> "", heap |-> heap, current |-> current,
                store |-> store]
    /\ lastCall' = Call("restart", FALSE, FALSE)
    /\ UNCHANGED <<client, sessionFile, cachedId, minted, oldIds, store, procs, svcVars,
                   streamVars>>

SessInit ==
    /\ client \in {"StatefulAgent", "CodexStatefulAgent"} /\ sessionFile = Absent /\ cachedId = None
    /\ ClientIdle /\ SessIdle

InitSession == SessInit /\ SvcIdle /\ StreamIdle

NextSession ==
    \/ \E name \in Names : SessCreate(name)
    \/ \E name \in Names : SessLoadOrCreate(name)
    \/ \E name \in Names : SessRun(name)
    \/ \E name \in Names : SessFork(name)
    \/ \E name \in Names : CodexSessCreate(name)
    \/ \E name \in Names : CodexSessLoadOrCreate(name)
    \/ \E name \in Names : CodexSessRun(name)
    \/ SessRestart

SpecSession == InitSession /\ [][NextSession]_vars

---------------------------------------------------------------------------
\* Save, load and save again of one Session (specification SpecRoundTrip).

\* Longest turn list of the Sessions explored.
MaxTurns == 2

\* "claude" or "codex": which StatefulAgent the client is
KindOf(c) == IF c = "CodexStatefulAgent" THEN "codex" ELSE "claude"

SampleTurns(k) ==
    IF k = "codex"
    THEN {CodexTurn("t1", "p", "r", 5), CodexTurn("t2", "q", "", 0)}
    ELSE {Turn("t1", "p", "r", 1, 5), Turn("t2", "q", "", 0, 0)}

TurnLists(k) == UNION { [1..n -> SampleTurns(k)] : n \in 0..MaxTurns }

\* The Sessions explored: any identifier, name, turn list, total and parent.
SampleSessions(k) ==
    IF k = "codex"
    THEN { [CodexSession(id, name, "t0") EXCEPT !.turns = tl] :
              id \in {"", "s1"}, name \in Names, tl \in TurnLists(k) }
    ELSE { [Session(id, name, "t0", parent) EXCEPT !.turns = tl, !.total_cost_usd = c] :
              id \in {"", "s1"}, name \in Names, tl \in TurnLists(k), c \in 0..1,
              parent \in {None, "s0"} }

\* A StatefulAgent just constructed (_current_session is None) on an empty
\* directory, and a Session S built by the caller: the first object of the heap.
RtInit ==
    /\ client \in {"StatefulAgent", "CodexStatefulAgent"}
    /\ sessionFile = Absent /\ cachedId = None /\ ClientIdle
    /\ store = [n \in Names |-> NoDoc] /\ snap = NoSnap /\ procs = <<>>
    /\ heap \in { <<session>> : session \in SampleSessions(KindOf(client)) }
    /\ current = 0

RtStep(op) ==
    /\ snap' = [op |-> op, name |-> heap[1].name, heap |-> heap, current |-> current,
                store |-> store]
    /\ lastCall' = Call(op, FALSE, FALSE)
    /\ UNCHANGED <<client, sessionFile, cachedId, launches, exits, minted, oldIds, procs,
                   svcVars, streamVars>>

\* agent._save_session(S)
RtSave ==
    /\ lastCall.op = "none" /\ heap # <<>>
    /\ store' = SaveSession(store, KindOf(client), heap[1])
    /\ UNCHANGED <<heap, current>>
    /\ RtStep("save")

\* L = agent._load_session(S.name): the Session read is returned to the
\* caller (the second object of the heap); _current_session is not assigned
RtLoad ==
    /\ lastCall.op = "save"
    /\ heap' = heap \o LoadSession(store, KindOf(client), heap[1].name)
    /\ UNCHANGED <<store, current>>
    /\ RtStep("loaded")

\* agent._save_session(L)
RtSaveAgain ==
    /\ lastCall.op = "loaded" /\ Len(heap) = 2
    /\ store' = SaveSession(store, KindOf(client), heap[2])
    /\ UNCHANGED <<heap, current>>
    /\ RtStep("resave")

InitRoundTrip == RtInit /\ SvcIdle /\ StreamIdle

NextRoundTrip == RtSave \/ RtLoad \/ RtSaveAgain

SpecRoundTrip == InitRoundTrip /\ [][NextRoundTrip]_vars

---------------------------------------------------------------------------
\* Two processes, each with its own StatefulAgent, run a prompt on the same
\* session name (specification SpecStore).  A process is [pc, session, prompt,
\* error]: pc "start" | "creating" | "created" | "running" | "ran" | "done" |
\* "failed"; the steps are split where run blocks in subprocess.run and where
\* _save_session has opened the file and not yet written it ("created", "ran").

Procs == {1, 2}
TheName == "A"
PromptOf(p) == IF p = 1 THEN "p1" ELSE "p2"

\* A session file left by an earlier process: created, then zero or one turn.
BaseSessions ==
    LET s0 == AddTurn(Session("s0", TheName, "t0", None),
                      Turn("t0", "Initialize session", "r", 1, 5)) IN
    {s0, AddTurn(s0, Turn("t0", "p0", "r", 1, 5))}

StoreInit ==
    /\ client = "StatefulAgent" /\ sessionFile = Absent /\ cachedId = None /\ ClientIdle
    /\ heap = <<>> /\ current = 0 /\ snap = NoSnap
    /\ store \in { [n \in Names |-> NoDoc] }
                 \cup { SaveSession([n \in Names |-> NoDoc], "claude", b) : b \in BaseSessions }
    /\ procs = [p \in Procs |-> [pc |-> "start", session |-> <<>>, prompt |-> PromptOf(p),
                                 error |-> ""]]

StoreFrame ==
    UNCHANGED <<client, sessionFile, cachedId, launches, exits, oldIds, lastCall, heap,
                current, svcVars, streamVars>>

\* run, lines 166-188: load the session, or start creating it; launch claude.
\* The load raises on a file another process is saving or has left unreadable.
ProcLoad(p) ==
    /\ procs # <<>> /\ procs[p].pc = "start"
    /\ IF LoadRaises(store, TheName)
       THEN procs' = [procs EXCEPT ![p].pc = "failed", ![p].error = "JSONDecodeError"]
       ELSE LET session == LoadSession(store, "claude", TheName) IN
            procs' = [procs EXCEPT ![p].session = session,
                                   ![p].pc = IF session = <<>> THEN "creating"
                                             ELSE "running"]
    /\ UNCHANGED <<store, snap, minted>>
    /\ StoreFrame

\* create_session, lines 116-136, once its subprocess has ended, up to the
\* open(path, "w") of _save_session
ProcCreated(p) ==
    /\ procs # <<>> /\ procs[p].pc = "creating"
    /\ \E o \in SessOutputs(minted) :
         LET r == CreateSession(TheName, "Initialize session", o,
                                [heap |-> <<>>, current |-> 0, store |-> store], Now(p))
         IN  IF r.raised
             THEN /\ procs' = [procs EXCEPT ![p].pc = "failed", ![p].error = r.error]
                  /\ UNCHANGED <<store, minted>>
             ELSE /\ procs' = [procs EXCEPT ![p].pc = "created",
                                            ![p].session = <<r.a.heap[1]>>]
                  /\ store' = OpenW(store, TheName)
                  /\ minted' = minted + r.mints
    /\ UNCHANGED snap
    /\ StoreFrame

\* run, lines 190-204, once its subprocess has ended, up to the
\* open(path, "w") of _save_session
ProcRan(p) ==
    /\ procs # <<>> /\ procs[p].pc = "running"
    /\ \E o \in SessOutputs(0) :
         LET r == SessionRun(procs[p].prompt, TheName, o, o,
                             [heap |-> procs[p].session, current |-> 1, store |-> store],
                             Now(p))
         IN  IF r.raised
             THEN /\ procs' = [procs EXCEPT ![p].pc = "failed", ![p].error = r.error]
                  /\ UNCHANGED store
             ELSE /\ procs' = [procs EXCEPT ![p].pc = "ran",
                                            ![p].session = <<r.a.heap[1]>>]
                  /\ store' = OpenW(store, TheName)
    /\ UNCHANGED <<snap, minted>>
    /\ StoreFrame

\* _save_session, line 93: the document is written and the file closed;
\* create_session returns into run (which launches claude), run returns
ProcSaved(p) ==
    /\ procs # <<>> /\ procs[p].pc \in {"created", "ran"}
    /\ store' = Dump(store, "claude", procs[p].session[1])
    /\ snap' = [op |-> "save", by |-> p]
    /\ procs' = [procs EXCEPT ![p].pc = IF @ = "created" THEN "running" ELSE "done"]
    /\ UNCHANGED minted
    /\ StoreFrame

InitStore == StoreInit /\ SvcIdle /\ StreamIdle

NextStore == \E p \in Procs : ProcLoad(p) \/ ProcCreated(p) \/ ProcRan(p) \/ ProcSaved(p)

SpecStore == InitStore /\ [][NextStore]_vars

---------------------------------------------------------------------------
\* Every client that launches the CLI, side by side (specification SpecExit):
\* the session clients, the streaming runs and the StatefulAgent, each from
\* its own initial states.

InitExit == InitClient \/ InitStream \/ InitSession

NextExit ==
    \/ (/\ client \in AlwaysResume \cup CondResume
        /\ sInput.lines = <<>> /\ sDone \notin Reading
        /\ NextClient)
    \/ NextStream
    \/ NextSession

SpecExit == InitExit /\ [][NextExit]_vars

---------------------------------------------------------------------------
\* Properties of AgentService (specification Spec).

RECURSIVE SumSeq(_)
SumSeq(q) == IF q = <<>> THEN 0 ELSE Head(q) + SumSeq(Tail(q))

\* The prompts a queue file asks for: its lines, stripped, that are not empty
\* and do not start with '#', in file order.
RECURSIVE TaskPrompts(_)
TaskPrompts(lines) ==
    IF lines = <<>> THEN <<>>
    ELSE LET l == Strip(Head(lines)) IN
         (IF l # <<>> /\ l[1] # "#" THEN <<l>> ELSE <<>>) \o TaskPrompts(Tail(lines))

Prompts(rs) == [i \in 1..Len(rs) |-> rs[i].prompt]

Returned == lastResult.status # "none"

QueueDone == mode = "queue" /\ svcPc = "done" /\ opened

\* C1: retry policy of run_task.  Before every attempt i >= 2 the driver has
\* slept 2^(i-1); when the first k attempts failed (exception or non-zero exit)
\* and attempt k+1 exited 0 with a result that is no error, the TaskResult is
\* SUCCESS with attempts = k+1; with k = 2 the waits before the 3rd attempt add
\* up to at least 2^1 + 2^2.
C1_RetryPolicy ==
    /\ Len(task.waits) = task.attempt
    /\ \A i \in 2..Len(task.waits) : task.waits[i] = 2 ^ (i - 1)
    /\ (Returned /\ task.lastClass = "good" /\ task.fails = task.attempt - 1)
          => /\ lastResult.status = "success"
             /\ lastResult.attempts = task.fails + 1
             /\ lastResult.attempts <= maxRetries
             /\ (task.fails = 2
                   => lastResult.attempts = 3 /\ SumSeq(task.waits) >= 2 ^ 1 + 2 ^ 2)

\* C1 witness: two failed attempts, then a good one: SUCCESS at the 3rd attempt
\* after waits of 2 and 4.
C1_Witness ==
    /\ Returned /\ lastResult.status = "success" /\ lastResult.attempts = 3
    /\ task.fails = 2 /\ task.lastClass = "good" /\ task.waits = <<0, 2, 4>>

\* C2: retry ceiling of run_task.  No call makes more than max_retries attempts;
\* with max_retries >= 1, when every attempt failed the call returns FAILED with
\* attempts = max_retries and the error of the last attempt.
C2_RetryCeiling ==
    /\ task.attempt <= maxRetries
    /\ (Returned /\ maxRetries >= 1 /\ task.fails = task.attempt)
          => /\ lastResult.status = "failed"
             /\ task.attempt = maxRetries
             /\ lastResult.attempts = maxRetries
             /\ lastResult.error = task.lastErr
             /\ lastResult.error # None

\* C2 witness: three failing attempts under max_retries = 3, the last one a
\* non-zero exit, returned as FAILED.
C2_Witness ==
    /\ Returned /\ maxRetries = 3 /\ task.fails = 3
    /\ lastResult.status = "failed" /\ lastResult.attempts = 3
    /\ lastResult.error = "CLI error: E1"

\* C3: process_queue that completes with no shutdown signal returns one
\* TaskResult per task line (non-empty and not starting with '#' once stripped),
\* in file order, whatever the status of each.
C3_OneResultPerTaskLine ==
    (QueueDone /\ ~shutdown) => Prompts(results) = TaskPrompts(openLines)

\* C3 witness: the spec's file (two prompts around a comment line) processed to
\* the end, the first task FAILED and the second SUCCESS.
C3_Witness ==
    /\ QueueDone /\ ~shutdown /\ openLines = <<LA, LNote, LB>>
    /\ Len(results) = 2
    /\ results[1].status = "failed" /\ results[2].status = "success"
    /\ results[1].prompt = <<"a">> /\ results[2].prompt = <<"b">>

\* C4 as stated: whatever the file holds, after process_queue completes with no
\* shutdown signal the queue file is gone from its path.
C4_Original == (QueueDone /\ ~shutdown) => ~queueFile.exists

\* C4 amended: after process_queue completes with no shutdown signal, the queue
\* file is gone from its path exactly when it held at least one task line; a
\* file of blank and comment lines only stays as it was.  No later
\* process_queue call runs a task.
C4_ArchivedWhenTasksRan ==
    /\ (QueueDone /\ ~shutdown)
          => /\ queueFile.exists <=> TaskPrompts(openLines) = <<>>
             /\ queueFile.exists => queueFile.lines = openLines
    /\ (mode = "queue" /\ calls >= 2) => (taskNum = 0 /\ results = <<>> /\ svcPc \notin TaskPcs)

\* C4 witness: a first call ran two tasks and archived the file, and a second
\* call found no file and returned nothing.
C4_Witness ==
    /\ mode = "queue" /\ svcPc = "done" /\ calls = 2 /\ ~opened /\ ~shutdown
    /\ ~queueFile.exists /\ results = <<>>
    /\ stats.tasks_completed + stats.tasks_failed = 2

\* C5 as stated: once the flag is raised, no run_task call is started by
\* process_queue any more.
C5_Original == (shutdown /\ mode = "queue") => started = flagAt.started

\* C5 amended: the flag is read once per loop iteration, before the line is
\* examined.  Once it is raised, at most one more run_task call starts, and only
\* for the line whose iteration had passed the check when the signal arrived;
\* every task that was started finishes and its TaskResult is in the returned
\* list.
C5_CooperativeShutdown ==
    /\ (shutdown /\ mode = "queue")
          => started <= flagAt.started + (IF flagAt.pc = "dispatch" THEN 1 ELSE 0)
    /\ (mode = "queue" /\ svcPc \in {"pause", "loop", "dispatch", "archive", "done"})
          => Len(results) = taskNum

\* C5 witness: the signal arrived while the first task of the spec's file was
\* running; that task's result was returned and the second prompt was never run.
C5_Witness ==
    /\ QueueDone /\ shutdown /\ flagAt.pc = "read" /\ flagAt.started = 1
    /\ openLines = <<LA, LNote, LB>>
    /\ Len(results) = 1 /\ results[1].prompt = <<"a">> /\ started = 1
    /\ queueFile.exists

\* C11 as stated: run_task never returns SUCCESS from an attempt whose output
\* ended, with exit code 0, without a result event.
C11_Original ==
    lastResult.status = "success" => task.lastClass # "noresult"

\* C14: when an attempt exits 0 and its result event has is_error true, run_task
\* returns a TaskResult with status FAILED, attempts the number of attempts made
\* so far and error the event's result message, and makes no further attempt.
C14_SemanticFailureReturned ==
    task.lastClass = "semerr"
       => /\ svcPc \notin TaskPcs
          /\ lastResult.status = "failed"
          /\ lastResult.attempts = task.attempt
          /\ lastResult.error = "boom"
          /\ lastResult.output = "no"
          /\ task.lastErr = None

\* C14 witness: the first attempt failed, the second reported is_error, and
\* run_task returned FAILED with attempts 2 although a third attempt was allowed.
C14_Witness ==
    /\ task.lastClass = "semerr" /\ task.fails = 1 /\ task.attempt = 2
    /\ maxRetries = MaxRetriesCfg
    /\ lastResult = TaskResult(task.prompt, "failed", "no", 2, "boom")
    /\ stats.tasks_failed >= 1

---------------------------------------------------------------------------
\* Properties of the session clients (specification SpecClient).

LaunchIx == 1..Len(launches)

\* C6 as stated: in ClaudeAgent and AgentService, a read of session_id with no
\* cached identifier and no session file (first use, or at the end of
\* reset_session) returns after exactly one initialization launch and leaves
\* the session file holding the identifier obtained.
C6_Original ==
    (client \in AlwaysResume /\ lastCall.op \in {"access", "reset"} /\ lastCall.fresh)
       => /\ ~lastCall.raised
          /\ Len(launches) = 1 /\ launches[1].kind = "init"
          /\ sessionFile # Absent /\ sessionFile = cachedId

\* C7 as stated: in ClaudeWrapper, CodexWrapper and CodexAgent every launch of
\* run() other than the initialization call carries the resume flag with a
\* non-empty identifier, the one stored in the session file.
C7_Original ==
    (client \in CondResume /\ lastCall.op = "run")
       => \A i \in LaunchIx :
             launches[i].kind = "run"
                => /\ launches[i].resume # <<>>
                   /\ launches[i].resume[1] # ""
                   /\ launches[i].file # Absent
                   /\ launches[i].resume[1] = StripText(launches[i].file)

\* C8 as stated: in ClaudeWrapper, CodexWrapper and CodexAgent, after reset the
\* session file is absent and the cached identifier cleared; the next run
\* starts with an initialization call without resume flag; every later call
\* resumes with the identifier then obtained, never with one stored before the
\* reset.
C8_Original ==
    client \in CondResume =>
       /\ lastCall.op = "reset" => (sessionFile = Absent /\ cachedId = None)
       /\ (lastCall.op = "run" /\ lastCall.prev = "reset")
             => (launches # <<>> /\ launches[1].kind = "init" /\ launches[1].resume = <<>>)
       /\ (lastCall.op = "run" /\ lastCall.resets > 0)
             => \A i \in LaunchIx :
                   launches[i].kind = "run"
                      => /\ launches[i].resume # <<>>
                         /\ launches[i].resume[1] = StripText(sessionFile)
                         /\ launches[i].resume[1] \notin oldIds

\* C13 as stated: ClaudeWrapper.run raises, and returns no Result built from
\* the process's output, whenever a subprocess it launched exits non-zero.
C13_Original ==
    (client = "ClaudeWrapper" /\ lastCall.op = "run"
        /\ \E i \in 1..Len(exits) : exits[i] # 0)
       => lastCall.raised

\* C20 as stated: once an identifier is persisted, a run changes neither the
\* session file nor the cached identifier, whatever the CLI reports.
C20_Original ==
    [][(sessionFile # Absent /\ lastCall'.op = "run")
          => /\ sessionFile' = sessionFile
             /\ cachedId' = StripText(sessionFile)
             /\ Truthy(cachedId) => cachedId' = cachedId]_vars

---------------------------------------------------------------------------
\* Properties of the streaming runs (specification SpecStream).

\* Whether some line of the output is an event of one of the given types.
HasEvent(lines, types) == \E i \in 1..Len(lines) : lines[i].t \in types

\* C9: ClaudeAgent.run in streaming mode raises, and returns no AgentResult,
\* whenever the output it read held no event of type result.
C9_NoResultRaises ==
    (sDone = "claude" /\ ~HasEvent(sInput.lines, {"result"}))
       => (sOut.raised /\ sOut.result = <<>>)

\* C9 witness: the subprocess printed one assistant text and exited with 0; the
\* text reached on_text and run raised "No result event received".
C9_Witness ==
    /\ sDone = "claude" /\ sInput.rc = 0
    /\ sInput.lines = <<Assistant(<<TextBlock("Hi")>>)>>
    /\ sOut = StreamOut(TRUE, "No result event received", <<"Hi">>, <<>>)

\* C10 as stated: CodexAgent.run in streaming mode does not report success when
\* the output held no terminal event: it raises or returns is_error true.
C10_Original ==
    (sDone = "codex" /\ ~HasEvent(sInput.lines, TerminalTypes))
       => (sOut.raised \/ sOut.result[1].is_error)

---------------------------------------------------------------------------
\* Properties of the StatefulAgent (specification SpecSession).

\* The last operation was a fork_session that returned.
Forked == lastCall.op = "fork" /\ ~lastCall.raised

\* The Session object that was current before the last operation.
ParentBefore == snap.heap[snap.current]

RECURSIVE SumCosts(_)
SumCosts(turns) == IF turns = <<>> THEN 0 ELSE Head(turns).cost_usd + SumCosts(Tail(turns))

\* C15: after fork_session(B, P) with current session A, the new current
\* session is a new object named B whose parent_session_id is A's session_id
\* and whose session_id is the one the fork call printed, and the object A
\* (session_id, turns, total_cost_usd) is as it was before the fork.
C15_ForkKeepsParentObject ==
    Forked =>
       /\ current = Len(heap) /\ current # snap.current
       /\ heap[current].name = snap.name
       /\ heap[current].parent_session_id = ParentBefore.session_id
       /\ heap[current].session_id = IdNames[minted]
       /\ launches = <<Launch("fork", <<ParentBefore.session_id>>, Absent)>>
       /\ heap[snap.current] = ParentBefore

\* C15 witness: session A with two turns was forked into B.
C15_Witness ==
    /\ Forked /\ snap.name = "B"
    /\ ParentBefore.name = "A" /\ Len(ParentBefore.turns) = 2
    /\ heap[snap.current] = ParentBefore
    /\ heap[current].parent_session_id = "s1" /\ heap[current].session_id = "s2"
    /\ heap[current].turns[1].prompt = "[FORK from A] p"

\* C16 as stated: for every new_name, after fork_session(new_name, P) the file
\* under the parent's name still holds the parent's session_id, turns and total
\* cost, as before the fork.
C16_Original ==
    Forked =>
       LET doc == store[ParentBefore.name] IN
       /\ doc # NoDoc
       /\ doc = snap.store[ParentBefore.name]
       /\ FromDict(doc).session_id = ParentBefore.session_id
       /\ FromDict(doc).turns = ParentBefore.turns
       /\ FromDict(doc).total_cost_usd = ParentBefore.total_cost_usd

\* C17: every Session of the Claude StatefulAgent, in memory and as persisted,
\* has total_cost_usd equal to the sum of the cost_usd of its turns.
C17_TotalCostIsSum ==
    client = "StatefulAgent" =>
       /\ \A i \in 1..Len(heap) : heap[i].total_cost_usd = SumCosts(heap[i].turns)
       /\ \A n \in Names :
             store[n] # NoDoc
                => FromDict(store[n]).total_cost_usd = SumCosts(FromDict(store[n]).turns)

\* C17 witness: a session created with cost 1 ran a turn of cost 2; a new
\* process loaded it from its file with total 3.
C17_Witness ==
    /\ lastCall.op = "load" /\ ~lastCall.raised /\ launches = <<>> /\ Len(heap) = 1
    /\ Len(heap[1].turns) = 2
    /\ heap[1].turns[1].cost_usd = 1 /\ heap[1].turns[2].cost_usd = 2
    /\ heap[1].total_cost_usd = 3

---------------------------------------------------------------------------
\* Properties of the session files (specifications SpecRoundTrip, SpecStore).

\* C18: saving a Session S, loading it by name and saving it again gives a
\* loaded Session equal to S and a file equal to the one first written, from
\* which S is read back: no turn, field or ordering is lost.
C18_RoundTrip ==
    /\ lastCall.op = "loaded" => (Len(heap) = 2 /\ heap[2] = heap[1])
    /\ lastCall.op = "resave"
          => /\ heap[2] = heap[1]
             /\ store = snap.store
             /\ LoadSession(store, KindOf(client), heap[1].name) = <<heap[1]>>

\* C18 witness: a forked Claude Session with two turns went through save, load
\* and save.
C18_Witness ==
    /\ lastCall.op = "resave" /\ client = "StatefulAgent"
    /\ heap[1].parent_session_id = "s0" /\ Len(heap[1].turns) = 2
    /\ heap[1].turns[1] # heap[1].turns[2]
    /\ heap[2] = heap[1] /\ store = snap.store /\ store[heap[1].name] # NoDoc

\* The shared file holds a JSON document.
IsDocument == store[TheName].j = "obj"

\* The prompts of the turns persisted under the shared name.
StoredPrompts ==
    IF IsDocument
    THEN LET session == LoadSession(store, "claude", TheName)[1] IN
         {session.turns[i].prompt : i \in 1..Len(session.turns)}
    ELSE {}

BothDone == \A p \in Procs : procs[p].pc = "done"

\* Process p is inside _save_session: it has opened the file and not written it.
InSave(p) == procs[p].pc \in {"created", "ran"}

---------------------------------------------------------------------------
\* Properties of the exit code handling (specification SpecExit).

\* Some subprocess of the last call exited with a non-zero code.
ExitedNonZero == \E i \in 1..Len(exits) : exits[i] # 0

\* C12: in ClaudeAgent (batch and streaming), the StatefulAgent and
\* CodexWrapper, a call one of whose subprocesses exits non-zero raises and
\* returns no Result, in streaming mode also when a result event was read, and
\* that subprocess is the last one the call launches.
C12_NonZeroExitRaises ==
    (client \in {"ClaudeAgent", "StatefulAgent", "CodexWrapper"} /\ ExitedNonZero)
       => /\ lastCall.raised
          /\ exits[Len(exits)] # 0
          /\ \A i \in 1..(Len(exits) - 1) : exits[i] = 0
          /\ sDone = "claude" => (sOut.raised /\ sOut.result = <<>> /\ Len(launches) = 1)

\* C12 witness: the streaming run of ClaudeAgent read a result event, the
\* process then exited with 1, and run raised.
C12_Witness ==
    /\ client = "ClaudeAgent" /\ sDone = "claude"
    /\ sInput = [lines |-> <<ResultLine(FALSE, 1, 2, "Hi")>>, rc |-> 1]
    /\ sOut = StreamOut(TRUE, "Claude CLI failed", <<>>, <<>>)
    /\ exits = <<1>> /\ lastCall.raised

---------------------------------------------------------------------------
\* Properties of the persisted turn history (specification SpecSession).

\* The turns in the file of a session name; none when there is no file.
StoredTurns(st, name) ==
    IF st[name] = NoDoc THEN <<>> ELSE FromDictOf(KindOf(client), st[name]).turns

\* The subprocess calls of the last operation that add a turn when they
\* complete: all of them in the Claude variant, where create_session records
\* the initialization turn; the resumed calls only in the Codex variant, where
\* create_session saves a Session without turns.
TurnLaunches ==
    IF KindOf(client) = "codex" THEN SelectSeq(launches, LAMBDA l : l.kind = "run")
    ELSE launches

\* C21: a run call of a StatefulAgent (snap holds the storage directory as it
\* was before the call) leaves the file of every other session name as it
\* was, and writes to the file of its own name the turn list that was there
\* followed by one new turn per subprocess call that adds one, in the order of
\* the calls (in the Claude variant the turn of the session's creation when run
\* had to create it, then the turn of the prompt; the Codex create_session
\* starts the file with an empty turn list); a run that returns has appended
\* the turn of its prompt last.
C21_AppendOnly ==
    (lastCall.op = "run" /\ snap.op = "run") =>
       \A name \in Names :
          LET old   == StoredTurns(snap.store, name)
              new   == StoredTurns(store, name)
              added == SubSeq(new, Len(old) + 1, Len(new))
          IN  /\ IsPrefix(old, new)
              /\ name # snap.name => new = old
              /\ Len(added) <= Len(TurnLaunches)
              /\ \A i \in 1..Len(added) :
                    /\ added[i].timestamp = Now(lastCall.n - 1)
                    /\ added[i].prompt = IF TurnLaunches[i].kind = "init"
                                         THEN "Initialize session" ELSE "p"
              /\ (name = snap.name /\ ~lastCall.raised)
                    => /\ Len(added) = Len(TurnLaunches)
                       /\ added[Len(added)].prompt = "p"

\* C21 witness: run on A, run on B, run on A again: the third call reloaded A
\* from its file and wrote its two turns followed by a third.
C21_Witness ==
    /\ lastCall.op = "run" /\ ~lastCall.raised /\ snap.name = "A"
    /\ snap.current # 0 /\ snap.heap[snap.current].name = "B"
    /\ Len(StoredTurns(snap.store, "A")) = 2
    /\ Len(StoredTurns(store, "A")) = 3
    /\ SubSeq(StoredTurns(store, "A"), 1, 2) = StoredTurns(snap.store, "A")
    /\ StoredTurns(store, "A")[3].timestamp = "t3"
    /\ StoredTurns(store, "B") = StoredTurns(snap.store, "B")
    /\ Len(StoredTurns(store, "B")) = 2

---------------------------------------------------------------------------
\* Properties of the StreamParsers (specification SpecParser).

\* The last parse_line call of the parser.
Last == parser.last[1]
Parsing(k) == parser.kind = k /\ parser.last # <<>>

\* C22: when the Claude parser reads a line that is not JSON, parse_line
\* returns an Event of kind "error" and raises nothing, no field of the stats
\* changes and no callback runs, and parse_stream yields that event and goes
\* on reading.
C22_BadJsonIsErrorEvent ==
    (Parsing("claude") /\ Last.line.t = "bad")
       => /\ Last.r.exc = "" /\ parser.exc = ""
          /\ Last.r.ret # <<>> /\ Last.r.ret[1].type = "error"
          /\ parser.stats = Last.before /\ Last.r.calls = <<>>
          /\ parser.events = SubSeq(parser.events, 1, Last.yielded) \o Last.r.ret

\* C22 witness: a text line, then a line that is not JSON, then a result line:
\* three events were yielded, the second one of kind "error", and the result
\* line set the stats.
C22_Witness ==
    /\ parser.kind = "claude" /\ Len(parser.fed) = 3
    /\ parser.fed[2].t = "bad" /\ parser.fed[3] = ResultLine(TRUE, 1, 2, "boom")
    /\ Len(parser.events) = 3
    /\ parser.events[1].type = "text" /\ parser.events[2].type = "error"
    /\ parser.events[3].type = "result"
    /\ parser.stats.text_chunks = 1 /\ parser.stats.cost_usd = 1 /\ parser.stats.is_error

\* C23 as stated: when the Codex parser reads a line that is not JSON,
\* parse_line returns an Event of kind "error" and raises nothing.
C23_Original ==
    (Parsing("codex") /\ Last.line.t = "bad")
       => (Last.r.exc = "" /\ Last.r.ret # <<>> /\ Last.r.ret[1].type = "error")

\* The event kinds that correspond to a declared type.
KindsFor(t) ==
    IF t = "assistant" THEN {"text", "tool_use", "tool_result", "thinking"} ELSE {t}
KnownTypes(k) ==
    IF k = "codex"
    THEN {"thread.started", "item.completed", "turn.completed", "turn.failed", "error"}
    ELSE {"init", "assistant", "result"}

\* C25 as stated: for every line that is a JSON object of a known type,
\* whatever its other fields and content blocks, parse_line returns an Event
\* whose kind corresponds to the type.
C25_Original ==
    (parser.last # <<>> /\ Last.line.t \in KnownTypes(parser.kind))
       => (Last.r.ret # <<>> /\ Last.r.ret[1].type \in KindsFor(Last.line.t))

\* The non-empty texts of the text blocks of assistant lines, in arrival order.
RECURSIVE TextsOfBlocks(_)
TextsOfBlocks(blocks) ==
    IF blocks = <<>> THEN <<>>
    ELSE (IF Head(blocks).bt = "text" /\ Key(Head(blocks), "text", "") # ""
          THEN <<Head(blocks).text[1]>> ELSE <<>>) \o TextsOfBlocks(Tail(blocks))
RECURSIVE TextsOfLines(_)
TextsOfLines(lines) ==
    IF lines = <<>> THEN <<>>
    ELSE TextsOfBlocks(Get(Head(lines).blocks, <<>>)) \o TextsOfLines(Tail(lines))

\* The arguments of the calls of callback cb, in the order of the calls.
ArgsOf(cb) ==
    LET sel == SelectSeq(parser.calls, LAMBDA c : c.cb = cb)
    IN  [i \in 1..Len(sel) |-> sel[i].arg]

\* C26 as stated: after the Claude parser read a sequence of assistant lines,
\* text_chunks is the number of non-empty text blocks in those lines and
\* on_text was invoked once per such block, in arrival order.
C26_Original ==
    (parser.kind = "claude" /\ \A i \in 1..Len(parser.fed) : parser.fed[i].t = "assistant")
       => /\ parser.stats.text_chunks = Len(TextsOfLines(parser.fed))
          /\ parser.on => ArgsOf("on_text") = TextsOfLines(parser.fed)

\* The last line read is a terminal event, and it marks an error.
Terminal ==
    /\ parser.last # <<>>
    /\ Last.line.t \in (IF parser.kind = "codex" THEN {"turn.completed", "turn.failed"}
                                                 ELSE {"result"})
MarksError ==
    IF parser.kind = "codex" THEN Last.line.t = "turn.failed"
    ELSE Get(Last.line.is_error, FALSE)
\* The message the event carries: "result" of a Claude result line, the
\* message of the "error" object of a Codex turn.failed line.
Message ==
    IF parser.kind = "codex"
    THEN Get(Last.line.error, [message |-> <<>>]).message
    ELSE Last.line.msg

\* C27: after parse_line on a terminal event, the error flag of the stats is
\* true exactly when the event marks an error (Claude: is_error true; Codex:
\* turn.failed); when it does and on_error is set, on_error was invoked once,
\* with the event's message when it has one; when it does not, no callback
\* was invoked.
C27_TerminalError ==
    Terminal =>
       /\ Last.r.exc = ""
       /\ parser.stats.is_error = MarksError
       /\ (MarksError /\ parser.on)
             => /\ Len(Last.r.calls) = 1 /\ Last.r.calls[1].cb = "on_error"
                /\ Message # <<>> => Last.r.calls[1].arg = Message[1]
       /\ ~(MarksError /\ parser.on) => Last.r.calls = <<>>

\* C27 witness: a Codex parser whose stats were clean read a turn.failed event
\* with the message "boom": the flag is set and on_error("boom") is the one
\* callback of that line.
C27_Witness ==
    /\ Parsing("codex") /\ parser.on /\ Last.line = TurnFailed([message |-> <<"boom">>])
    /\ ~Last.before.is_error /\ parser.stats.is_error
    /\ Last.r.calls = <<[cb |-> "on_error", arg |-> "boom"]>>
    /\ ArgsOf("on_error") = <<"boom">>

\* C28: for a blank line and for a JSON object of a type the parser does not
\* know, parse_line returns None and raises nothing, no callback runs, no
\* field of the stats changes, and parse_stream yields no event.
C28_IgnoredInput ==
    (parser.last # <<>>
        /\ (Last.line.t = "blank"
              \/ Last.line.t \notin KnownTypes(parser.kind) \cup {"bad", "nondict"}))
       => /\ Last.r.ret = <<>> /\ Last.r.exc = "" /\ parser.exc = ""
          /\ Last.r.calls = <<>>
          /\ parser.stats = Last.before
          /\ Len(parser.events) = Last.yielded

\* C28 witness: after a text line and a tool line, the Claude parser read an
\* object of type "system": the stats and the one event per earlier line are
\* as they were.
C28_Witness ==
    /\ Parsing("claude") /\ parser.on /\ Len(parser.fed) = 3
    /\ Last.line = Line("system")
    /\ parser.stats.text_chunks = 1 /\ parser.stats.tool_uses = 1
    /\ Len(parser.events) = 2 /\ Len(parser.calls) = 2

---------------------------------------------------------------------------
\* Properties of the streaming run on malformed and incomplete output
\* (specification SpecStream).

\* C24 as stated: a line that is not JSON does not abort the streaming run:
\* when a terminal event follows it and the process exits with 0, run returns
\* its result.
C24_Original ==
    (/\ sDone \in {"claude", "codex"} /\ sInput.rc = 0
     /\ \E i, j \in 1..Len(sInput.lines) :
           /\ i < j /\ sInput.lines[i].t = "bad"
           /\ sInput.lines[j].t \in {"result", "turn.completed", "turn.failed"}
           /\ \A k \in 1..Len(sInput.lines) : sInput.lines[k].t # "nondict")
       => ~sOut.raised

\* The text blocks of the assistant lines, in arrival order.
RECURSIVE TextBlocksOf(_)
TextBlocksOf(lines) ==
    IF lines = <<>> THEN <<>>
    ELSE SelectSeq(Get(Head(lines).blocks, <<>>), LAMBDA b : b.bt = "text")
         \o TextBlocksOf(Tail(lines))

\* The lines are assistant lines whose text blocks carry a text, and result
\* lines.
WellFormed(lines) ==
    /\ \A i \in 1..Len(lines) : lines[i].t \in {"assistant", "result"}
    /\ \A i \in 1..Len(TextBlocksOf(lines)) : TextBlocksOf(lines)[i].text # <<>>

AssistantsAndResults == WellFormed(sInput.lines)

\* The texts of the text blocks of the lines, one per block, in arrival order.
TextsOf(lines) ==
    LET tbs == TextBlocksOf(lines) IN [i \in 1..Len(tbs) |-> tbs[i].text[1]]

\* The texts of the text blocks of all lines, concatenated in arrival order.
RECURSIVE AllText(_)
AllText(lines) ==
    IF lines = <<>> THEN ""
    ELSE BlockTexts(Get(Head(lines).blocks, <<>>)) \o AllText(Tail(lines))

\* The last result line of the output.
LastResult ==
    sInput.lines[CHOOSE i \in 1..Len(sInput.lines) :
                    /\ sInput.lines[i].t = "result"
                    /\ \A j \in (i + 1)..Len(sInput.lines) : sInput.lines[j].t # "result"]

\* C29: when ClaudeAgent.run(prompt, on_text) reads assistant lines and result
\* lines, on_text is invoked once per text block, in arrival order, while the
\* lines are being read: after each line the calls made are those for the text
\* blocks of the lines read so far, and no result exists yet.  This is so
\* whether or not a result is built afterwards; when the output holds a result
\* line and the process exits with 0, run returns an AgentResult whose text is
\* the concatenation of those blocks and whose cost, duration and error flag
\* are those of the last result line.
C29_StreamingResult ==
    /\ (sDone = "claude-reading" /\ WellFormed(SubSeq(sInput.lines, 1, sPos)))
          => /\ sOut.chunks = TextsOf(SubSeq(sInput.lines, 1, sPos))
             /\ sOut.result = <<>>
    /\ (sDone = "claude" /\ AssistantsAndResults)
          => /\ sOut.chunks = TextsOf(sInput.lines)
             /\ (sInput.rc = 0 /\ HasEvent(sInput.lines, {"result"}))
                   => /\ ~sOut.raised
                      /\ sOut.result[1].text = AllText(sInput.lines)
                      /\ sOut.result[1].cost_usd = Get(LastResult.cost, 0)
                      /\ sOut.result[1].duration_ms = Get(LastResult.dur, 0)
                      /\ sOut.result[1].is_error = Get(LastResult.is_error, FALSE)

\* C29 witness: a result line flagged as an error (cost 3, duration 4), then
\* an assistant line with the text blocks " " and "there" around a tool block,
\* then the result line with cost 1 and duration 2: on_text saw " " then
\* "there", and the result has text " there" and the cost, duration and error
\* flag of the second result line.
C29_Witness ==
    /\ sDone = "claude" /\ sInput.rc = 0
    /\ sInput.lines = <<ResultLine(TRUE, 3, 4, "boom"),
                        Assistant(<<TextBlock(" "), ToolBlock, TextBlock("there")>>),
                        ResultLine(FALSE, 1, 2, "Hi")>>
    /\ sOut.chunks = <<" ", "there">> /\ ~sOut.raised
    /\ sOut.result[1].text = " there" /\ sOut.result[1].cost_usd = 1
    /\ sOut.result[1].duration_ms = 2 /\ ~sOut.result[1].is_error

\* C30 as stated: ClaudeAgent.run in streaming mode, reading event objects of
\* known types in which payload fields are missing, completes without raising
\* when a result line arrives and the process exits with 0.
C30_Original ==
    (/\ sDone = "claude" /\ sInput.rc = 0
     /\ \A i \in 1..Len(sInput.lines) : sInput.lines[i].t \in {"assistant", "result"}
     /\ HasEvent(sInput.lines, {"result"}))
       => ~sOut.raised

---------------------------------------------------------------------------
\* Further properties of AgentService (specification Spec).

\* C32: every attempt of one run_task call builds its command with the prompt
\* of the call and, after --resume, the identifier the service holds, which is
\* the one the session file held when the call began; all the commands of one
\* call are therefore equal to the first, and no attempt launches an
\* initialization subprocess to obtain another identifier.
C32_SameConversation ==
    /\ \A i \in 1..Len(task.cmds) :
          /\ task.cmds[i] = task.cmds[1]
          /\ task.cmds[i].prompt = task.prompt
          /\ task.cmds[i].resume = cachedId
          /\ sessionFile # Absent /\ task.cmds[i].resume = StripText(sessionFile)
    /\ task.inits = 0

\* C32 witness: a call whose first two attempts exited non-zero and whose third
\* succeeded; the three commands resumed conversation s0 with prompt p.
C32_Witness ==
    /\ Returned /\ mode = "direct" /\ lastResult.status = "success"
    /\ task.attempt = 3 /\ task.fails = 2 /\ Len(task.cmds) = 3
    /\ task.cmds[3] = [prompt |-> <<"p">>, resume |-> "s0"]

\* Whether the last attempt of the task returned a result (it did not raise).
AttemptReturned == task.lastClass \in {"good", "semerr", "noresult"}

\* C33: the budget ceiling only decides whether a warning is logged.  The
\* warning is logged by the attempt that returns with the accumulated cost above
\* the ceiling; that call returns the TaskResult of its attempt (FAILED for a
\* result with is_error, SUCCESS otherwise), and a process_queue call that ends
\* with no shutdown signal has a result for every task line, however far above
\* the ceiling the cost went.
C33_BudgetAdvisory ==
    /\ (Returned /\ svcPc \notin TaskPcs /\ AttemptReturned)
          => /\ task.warned <=> (budgetUsd # <<>> /\ stats.total_cost_usd > budgetUsd[1])
             /\ lastResult.status = (IF task.lastClass = "semerr" THEN "failed" ELSE "success")
             /\ lastResult.attempts = task.attempt
    /\ (budgetUsd = <<>> \/ ~AttemptReturned) => ~task.warned
    /\ (QueueDone /\ ~shutdown /\ OverBudget(stats.total_cost_usd, budgetUsd))
          => Len(results) = Len(TaskPrompts(openLines))

\* C33 witness: with a ceiling of 1, the first task of the spec's file cost 2
\* and crossed it; the second task was still run, succeeded and logged the
\* warning again.
C33_Witness ==
    /\ QueueDone /\ ~shutdown /\ openLines = <<LA, LNote, LB>> /\ budgetUsd = <<1>>
    /\ Len(results) = 2 /\ results[1].status = "success" /\ results[2].status = "success"
    /\ stats.total_cost_usd = 4 /\ task.warned

\* C34 as stated: when run_task has returned, no line that was written to the
\* task's output file during the call has been removed from it.
C34_Original == (Returned /\ svcPc \notin TaskPcs) => ~task.lost

\* The run_task calls that have returned: those made (by main, by
\* run_interactive or by process_queue) less the one still running.
NumReturned ==
    (IF HasOnOutput(mode) THEN calls ELSE started) - (IF svcPc \in TaskPcs THEN 1 ELSE 0)

CountStatus(rs, status) == Cardinality({i \in 1..Len(rs) : rs[i].status = status})

\* C35: a TaskResult returned by run_task has status SUCCESS or FAILED; the two
\* counters together count the run_task calls that have returned, and in a
\* first process_queue call tasks_completed is the number of SUCCESS results
\* and tasks_failed the number of FAILED ones.
C35_TerminalStatusCounted ==
    /\ Returned => lastResult.status \in {"success", "failed"}
    /\ \A i \in 1..Len(results) : results[i].status \in {"success", "failed"}
    /\ stats.tasks_completed + stats.tasks_failed = NumReturned
    /\ (mode = "queue" /\ calls = 1)
          => /\ stats.tasks_completed = CountStatus(results, "success")
             /\ stats.tasks_failed = CountStatus(results, "failed")
    /\ (HasOnOutput(mode) /\ calls = 1 /\ Returned)
          => stats.tasks_completed = (IF lastResult.status = "success" THEN 1 ELSE 0)

\* C35 witness: the spec's file processed to the end, the first task FAILED
\* after its retries were used up and the second SUCCESS.
C35_Witness ==
    /\ QueueDone /\ openLines = <<LA, LNote, LB>> /\ Len(results) = 2
    /\ results[1].status = "failed" /\ results[1].attempts = 2 /\ maxRetries = 2
    /\ results[2].status = "success"
    /\ stats.tasks_completed = 1 /\ stats.tasks_failed = 1

\* C36 as stated: when a process_queue call that opened the file ends, the file
\* is gone from its path exactly when at least one task was run and every task
\* line has its TaskResult, wherever the shutdown signal arrived.
C36_Original ==
    QueueDone => (~queueFile.exists
                    <=> (taskNum > 0 /\ Prompts(results) = TaskPrompts(openLines)))

\* C37 as stated: when a run_task call that was given on_output has returned,
\* the chunks handed to on_output, concatenated, are the output of the result.
C37_Original ==
    (Returned /\ svcPc \notin TaskPcs /\ HasOnOutput(mode)) => task.emitted = lastResult.output

---------------------------------------------------------------------------
\* Further properties of the basic agents (specification SpecStream).

\* main of basic/agent.py, lines 278-284: it prints the result and returns (the
\* interpreter exits with 0) whatever the result holds; an exception that
\* leaves run() leaves main too, and the interpreter exits with 1.
MainExit(out) == IF out.raised THEN 1 ELSE 0

\* C31 as stated: the command line of ClaudeAgent exits with 0 exactly when the
\* run returned a result whose error flag is not set, and with 1 otherwise.
C31_Original ==
    sDone = "claude"
       => (MainExit(sOut) = 0 <=> (~sOut.raised /\ ~sOut.result[1].is_error))

\* What the streaming run of CodexAgent does on the output the batch run was
\* given, starting from the same session file.
StreamingTwin ==
    CodexAgentRun(sInput.lines, sInput.rc,
                  ResolveCond("CodexAgent", None, sessionFile, SvcInitOut).cached).out

\* C39 as stated: when the subprocess exits with 0 and the batch run of
\* CodexAgent returns, the streaming run on the same output returns too, with
\* the same text, duration_ms, thread_id and is_error.
C39_Original ==
    (sDone = "codex-batch" /\ sInput.rc = 0 /\ ~sOut.raised)
       => (~StreamingTwin.raised /\ StreamingTwin.result = sOut.result)

---------------------------------------------------------------------------
\* Further properties of the StatefulAgent (specification SpecSession).

\* The last operation was a run whose resumed subprocess was launched and
\* exited non-zero, or that raised after launching it (with exit code 0 that is
\* the parse of its output raising).
ResumedCallFailed ==
    /\ lastCall.op = "run" /\ snap.op = "run" /\ launches # <<>>
    /\ launches[Len(launches)].kind = "run"
    /\ (exits[Len(exits)] # 0 \/ lastCall.raised)

\* Whether that run had to create the session before resuming it.
CreatedFirst == Len(launches) = 2 /\ launches[1].kind = "init"

\* C38 as stated: when the resumed subprocess of run exits non-zero or prints
\* what cannot be parsed, run raises and the storage directory, with the file
\* of the session, is what it was before the call.
C38_Original == ResumedCallFailed => (lastCall.raised /\ store = snap.store)

\* The Session object run worked on before the resumed call: the current one
\* when it has the name asked for, else the one read from the file.
SessionBefore ==
    IF snap.current # 0 /\ snap.heap[snap.current].name = snap.name
    THEN snap.heap[snap.current]
    ELSE FromDictOf(KindOf(client), snap.store[snap.name])

\* C38 amended: in both variants, when the resumed subprocess of run exits
\* non-zero or prints what cannot be parsed, run raises and appends no turn for
\* its prompt.  The files of the other sessions are untouched.  When the session
\* existed (in memory or on disk) its file, its turns and its total cost are
\* what they were before the call; when run had to create it first, the file is
\* the one create_session wrote: in the Claude variant it holds the
\* initialization turn only and that turn's cost, in the Codex variant no turn.
C38_RunErrorAddsNoTurn ==
    ResumedCallFailed =>
       /\ lastCall.raised
       /\ \A n \in Names \ {snap.name} : store[n] = snap.store[n]
       /\ heap[current].name = snap.name
       /\ IF CreatedFirst
          THEN /\ snap.store[snap.name] = NoDoc
               /\ store[snap.name] = ToDictOf(KindOf(client), heap[current])
               /\ IF KindOf(client) = "codex" THEN heap[current].turns = <<>>
                  ELSE /\ Len(heap[current].turns) = 1
                       /\ heap[current].turns[1].prompt = "Initialize session"
                       /\ heap[current].total_cost_usd = heap[current].turns[1].cost_usd
          ELSE /\ store = snap.store
               /\ heap[current] = SessionBefore

\* C38 witness: run on the current session, whose file holds two turns, ended
\* with the resumed subprocess exiting non-zero; the file still holds those two
\* turns and the same cost.
C38_Witness ==
    /\ ResumedCallFailed /\ ~CreatedFirst /\ exits[Len(exits)] = 1
    /\ snap.current # 0 /\ snap.current = current
    /\ Len(StoredTurns(store, snap.name)) = 2
    /\ store = snap.store /\ heap = snap.heap

====
